---- MODULE Spec2Model ----
(***************************************************************************)
(* Model of the LawMatics-SDK test-fixture rewrite scripts.                *)
(*                                                                         *)
(* A file's text is a sequence of tokens: a word (a maximal run of \w      *)
(* characters), a single punctuation character, or a single whitespace     *)
(* character (" " or "\n").  The literal fragments and regular expressions *)
(* of the scripts are applied to these token sequences; a substring test   *)
(* of the code is a token-subsequence test here (the words of the modelled *)
(* files are never proper substrings of one another where a pattern could  *)
(* start or end inside a word).                                            *)
(***************************************************************************)
EXTENDS Integers, Sequences, FiniteSets, TLC

VARIABLES
    disk,         \* file id -> text on disk
    perm,         \* file id -> "rw" | "ro" | "none" (what open() allows)
    pc,           \* position of the running script
    run,          \* which invocation of the script this is
    test_files,   \* the list the batch loop iterates (file ids)
    cur,          \* index into test_files of the next file
    total_fixes,  \* the script's counter
    summary,      \* <<n>> once the final summary line printed n, <<>> before
    fixed,        \* file id -> fixes_in_file of this run's iteration (0 if none)
    before,       \* the disk when this invocation started
    wrote,        \* files this invocation wrote
    failed,       \* files whose iteration ended in the except branch
    seen,         \* files whose iteration started in this invocation
    script,       \* which of the two grep/sed scripts runs ("" for the others)
    line_nums,    \* the line numbers grep -n printed for the current file
    site,         \* position in the inner loop: index into line_nums, or into ModelNames
    edits         \* number of sed substitutions that changed a line in this invocation

vars == <<disk, perm, pc, run, test_files, cur, total_fixes, summary,
          fixed, before, wrote, failed, seen, script, line_nums, site, edits>>

\* the variables only the grep/sed scripts use
sedVars == <<script, line_nums, site, edits>>

-----------------------------------------------------------------------------
(* Bounds *)

NumFiles == 3
MaxLines == 3
MaxRuns == 2

Files == 1..NumFiles

-----------------------------------------------------------------------------
(* Text helpers *)

SP == " "
NL == "\n"
None == <<>>

IsSpace(t) == t \in {SP, NL}

Punct == {"<", ">", "{", "}", "(", ")", "[", "]", ";", ",", ".", "=", "/"}

\* \w+ : a word token
IsWord(t) == ~IsSpace(t) /\ t \notin Punct

\* s[i..] starts with pat
MatchAt(s, i, pat) ==
    /\ i >= 1
    /\ i + Len(pat) - 1 <= Len(s)
    /\ \A k \in 1..Len(pat) : s[i + k - 1] = pat[k]

\* Python `pat in s`
Contains(s, pat) == \E i \in 1..Len(s) : MatchAt(s, i, pat)

Min(S) == CHOOSE x \in S : \A y \in S : x <= y
Max(S) == CHOOSE x \in S : \A y \in S : x >= y

RECURSIVE SkipSpace(_, _)
\* \s* : index of the first non-whitespace token at or after i (Len(s)+1 if none)
SkipSpace(s, i) ==
    IF i > Len(s) THEN Len(s) + 1
    ELSE IF IsSpace(s[i]) THEN SkipSpace(s, i + 1)
    ELSE i

RECURSIVE SkipSpaceBack(_, _)
\* index of the last non-whitespace token at or before i (0 if none)
SkipSpaceBack(s, i) ==
    IF i < 1 THEN 0
    ELSE IF IsSpace(s[i]) THEN SkipSpaceBack(s, i - 1)
    ELSE i

\* index of the first token t at or after i (0 if none)
FindTok(s, i, t) ==
    LET R == {k \in i..Len(s) : s[k] = t}
    IN IF R = {} THEN 0 ELSE Min(R)

\* str.lstrip()
LStrip(s) == SubSeq(s, SkipSpace(s, 1), Len(s))

\* str.strip()
Strip(s) == SubSeq(s, SkipSpace(s, 1), SkipSpaceBack(s, Len(s)))

RECURSIVE SplitFrom(_, _)
\* the pieces of s from index i on
SplitFrom(s, i) ==
    LET n == FindTok(s, i, NL)
    IN IF n = 0 THEN <<SubSeq(s, i, Len(s))>>
       ELSE <<SubSeq(s, i, n - 1)>> \o SplitFrom(s, n + 1)

\* content.split('\n')
Split(s) == SplitFrom(s, 1)

RECURSIVE Join(_)
\* '\n'.join(lines)
Join(lines) ==
    IF Len(lines) = 0 THEN <<>>
    ELSE IF Len(lines) = 1 THEN lines[1]
    ELSE lines[1] \o <<NL>> \o Join(Tail(lines))

RECURSIVE Spaces(_)
\* ' ' * n
Spaces(n) == IF n <= 0 THEN <<>> ELSE <<SP>> \o Spaces(n - 1)

-----------------------------------------------------------------------------
(* Literal fragments of the scripts *)

\* 'JsonSerializer.Serialize(expectedResponse, _jsonOptions)'
SerCall == <<"JsonSerializer", ".", "Serialize", "(", "expectedResponse", ",", SP,
             "_jsonOptions", ")">>

\* 'JsonSerializer.Serialize(apiResponse, _jsonOptions)'
SerApiCall == <<"JsonSerializer", ".", "Serialize", "(", "apiResponse", ",", SP,
                "_jsonOptions", ")">>

\* 'var jsonResponse = '
VarJson == <<"var", SP, "jsonResponse", SP, "=", SP>>

\* 'var expectedResponse = new '
DeclPat == <<"var", SP, "expectedResponse", SP, "=", SP, "new", SP>>

\* 'var apiResponse = new '
WrapHead == <<"var", SP, "apiResponse", SP, "=", SP, "new", SP>>

\* ' { Data = expectedResponse };'
WrapTail == <<SP, "{", SP, "Data", SP, "=", SP, "expectedResponse", SP, "}", ";">>

\* 'PagedResponse<'
PagedOpen == <<"PagedResponse", "<">>

\* 'ApiResponse<'
ApiOpen == <<"ApiResponse", "<">>

-----------------------------------------------------------------------------
(* fix_all_pagedresponse.py *)

\* re.search(r'new\s+(\w+(?:<[^>]+>)?)\s*{', s) tried at position p:
\* group(1), or None when the pattern does not match there
TypeAt(s, p) ==
    IF ~(p + 1 <= Len(s) /\ s[p] = "new" /\ IsSpace(s[p + 1])) THEN None
    ELSE
      LET q == SkipSpace(s, p + 1)
      IN IF ~(q <= Len(s) /\ IsWord(s[q])) THEN None
         ELSE
           LET r == FindTok(s, q + 3, ">")
               \* with the optional group: <[^>]+> then \s*{
               generic ==
                   /\ q + 1 <= Len(s) /\ s[q + 1] = "<"
                   /\ q + 2 <= Len(s) /\ s[q + 2] # ">"
                   /\ r # 0
                   /\ SkipSpace(s, r + 1) <= Len(s)
                   /\ s[SkipSpace(s, r + 1)] = "{"
               \* without it: \s*{ right after the word
               plain ==
                   /\ SkipSpace(s, q + 1) <= Len(s)
                   /\ s[SkipSpace(s, q + 1)] = "{"
           IN IF generic THEN SubSeq(s, q, r)
              ELSE IF plain THEN <<s[q]>>
              ELSE None

\* match.group(1) of the leftmost match, None without a match
ExtractType(s) ==
    LET P == {p \in 1..Len(s) : s[p] = "new" /\ TypeAt(s, p) # None}
    IN IF P = {} THEN None ELSE TypeAt(s, Min(P))

\* re.search(r'PagedResponse<([^>]+)>', t): group(1) or None
InnerType(t) ==
    LET P == {p \in 1..Len(t) :
                /\ MatchAt(t, p, PagedOpen)
                /\ p + 2 <= Len(t) /\ t[p + 2] # ">"
                /\ FindTok(t, p + 3, ">") # 0}
    IN IF P = {} THEN None
       ELSE SubSeq(t, Min(P) + 2, FindTok(t, Min(P) + 3, ">") - 1)

\* lines 64-73: the wrapper type for a resolved type
WrapperType(t) ==
    IF Contains(t, <<"PagedResponse">>)
    THEN IF InnerType(t) # None
         THEN <<"ApiResponse", "<", "PagedResponse", "<">> \o InnerType(t) \o <<">", ">">>
         ELSE <<"ApiResponse", "<", "PagedResponse", "<", ">", ">">>
    ELSE <<"ApiResponse", "<">> \o t \o <<">">>

\* lines 76-77
WrapperLine(line, t) ==
    Spaces(Len(line) - Len(LStrip(line))) \o WrapHead \o WrapperType(t) \o WrapTail

RECURSIVE ScanBack_KeepScanning(_, _)
\* ScanBack with the break moved under `if match:`: a declaration that yields
\* no type does not end the scan
ScanBack_KeepScanning(lines, j) ==
    IF j < 1 THEN None
    ELSE IF Contains(Strip(lines[j]), DeclPat) /\ ExtractType(Strip(lines[j])) # None
         THEN ExtractType(Strip(lines[j]))
    ELSE ScanBack_KeepScanning(lines, j - 1)

\* ScanBack reading the file from its first line down: the first declaration of
\* the lines 1..j decides, not the last
ScanBack_FromTop(lines, j) ==
    LET D == {k \in 1..j : Contains(Strip(lines[k]), DeclPat)}
    IN IF D = {} THEN None ELSE ExtractType(Strip(lines[Min(D)]))

RECURSIVE ScanBack(_, _)
\* lines 50-60: the backward scan from line j; the resolved type or None
ScanBack(lines, j) ==
    IF j < 1 THEN None
    ELSE IF Contains(Strip(lines[j]), DeclPat) THEN ExtractType(Strip(lines[j]))
    ELSE ScanBack(lines, j - 1)

\* EmitLines with the two appends in the other order
EmitLines_WrapperAfter(line, t) ==
    IF t # None THEN <<line, WrapperLine(line, t)>> ELSE <<line>>

\* lines 62-81: what one input line contributes to modified_lines
EmitLines(line, t) ==
    IF t # None THEN <<WrapperLine(line, t), line>> ELSE <<line>>

RECURSIVE FixAllFrom(_, _)
\* lines 43-82: the while loop from index i on; modified_lines and fixes_in_file
FixAllFrom(lines, i) ==
    IF i > Len(lines) THEN [lines |-> <<>>, fixes |-> 0]
    ELSE
      LET t == IF Contains(lines[i], SerCall) THEN ScanBack(lines, i - 1) ELSE None
          rest == FixAllFrom(lines, i + 1)
      IN [lines |-> EmitLines(lines[i], t) \o rest.lines,
          fixes |-> (IF t # None THEN 1 ELSE 0) + rest.fixes]

\* lines 40-82 on a file's text
FixAllText(text) == FixAllFrom(Split(text), 1)

-----------------------------------------------------------------------------
(* The files the scripts are run on *)

\* the *Tests.cs files found under /workspace/LawMatics.SDK.Tests, by file id
FileName(f) ==
    IF f = 1 THEN "ExpensesClientTests.cs"
    ELSE IF f = 2 THEN "TasksClientTests.cs"
    ELSE IF f = 3 THEN "CustomContactTypesClientTests.cs"
    ELSE "TimeEntriesClientTests.cs"

\* lines of C# test code
LDeclPaged ==
    <<SP>> \o DeclPat \o <<"PagedResponse", "<", "Widget", ">", SP, "{", SP, "}", ";">>
LDeclSingle ==
    <<SP>> \o DeclPat \o <<"Widget", SP, "{", SP, "}", ";">>
\* the opening brace is on the next line
LDeclOpen ==
    <<SP>> \o DeclPat \o <<"PagedResponse", "<", "Widget", ">">>
\* a multiply-nested generic
LDeclNested ==
    <<SP>> \o DeclPat \o <<"PagedResponse", "<", "List", "<", "Widget", ">", ">",
                          SP, "{", SP, "}", ";">>
\* a multiply-nested generic whose initializer constructs its list in line
LDeclInline ==
    <<SP>> \o DeclPat \o <<"PagedResponse", "<", "List", "<", "Widget", ">", ">",
                          SP, "{", SP, "Data", SP, "=", SP, "new", SP,
                          "List", "<", "Widget", ">", SP, "{", SP, "}", SP, "}", ";">>
\* a non-generic paged type
LDeclBare ==
    <<SP>> \o DeclPat \o <<"PagedResponse", SP, "{", SP, "}", ";">>
LSer ==
    <<SP, SP>> \o VarJson \o SerCall \o <<";">>
LOther ==
    <<SP, "}">>

FixAllLibrary ==
    {LDeclPaged, LDeclSingle, LDeclOpen, LDeclNested, LDeclInline, LDeclBare, LSer, LOther}

\* the texts of 1..n lines over a library of lines
TextsOver(lib, n) ==
    {Join(ls) : ls \in UNION {[1..k -> lib] : k \in 1..n}}

\* a text with one resolvable site, and one with nothing to rewrite
OtherText == Join(<<LDeclPaged, LSer>>)
PlainText == Join(<<LDeclPaged, LOther>>)

\* what the file system allows on a path: read and write, read only, neither,
\* or the path does not exist
Perms == {"rw", "ro", "none", "absent"}

\* the scripts that are not grep/sed scripts leave these alone
SedIdle == script = "" /\ line_nums = <<>> /\ site = 1 /\ edits = 0

CanRead(f) == perm[f] \in {"rw", "ro"}
CanWrite(f) == perm[f] = "rw"

\* the part of Init every script shares: either the first file holds any of
\* `texts` and every file can be read and written, or every file holds one of
\* `small` and has any of the permissions
InitCommon(texts, small) ==
    /\ \/ /\ disk \in {[f \in Files |-> IF f = 1 THEN t ELSE OtherText] : t \in texts}
          /\ perm = [f \in Files |-> "rw"]
       \/ /\ disk \in [Files -> small]
          /\ perm \in [Files -> Perms]
    /\ run = 1
    /\ test_files = <<>>
    /\ cur = 1
    /\ total_fixes = 0
    /\ summary = <<>>
    /\ fixed = [f \in Files |-> 0]
    /\ before = disk
    /\ wrote = {}
    /\ failed = {}
    /\ seen = {}

\* the files of a set, as a list in directory order
RECURSIVE ListOf(_)
ListOf(S) == IF S = {} THEN <<>> ELSE <<Min(S)>> \o ListOf(S \ {Min(S)})

\* invoking the script once more on the files as they are now
Rerun(start) ==
    /\ pc = "done"
    /\ run < MaxRuns
    /\ pc' = start
    /\ run' = run + 1
    /\ test_files' = <<>>
    /\ cur' = 1
    /\ total_fixes' = 0
    /\ summary' = <<>>
    /\ fixed' = [f \in Files |-> 0]
    /\ before' = disk
    /\ wrote' = {}
    /\ failed' = {}
    /\ seen' = {}
    /\ line_nums' = <<>>
    /\ site' = 1
    /\ edits' = 0
    /\ UNCHANGED <<disk, perm, script>>

-----------------------------------------------------------------------------
(* fix_all_pagedresponse.py: the script *)

FixAllInit ==
    /\ InitCommon(TextsOver(FixAllLibrary, MaxLines), {OtherText, PlainText})
    /\ SedIdle
    /\ pc = "fa_walk"

\* lines 10-25: collect the readable *Tests.cs files that contain 'PagedResponse<'
FixAllWalk ==
    /\ pc = "fa_walk"
    /\ test_files' = ListOf({f \in Files :
                                /\ FileName(f) # "CustomContactTypesClientTests.cs"
                                /\ CanRead(f)
                                /\ Contains(disk[f], PagedOpen)})
    /\ cur' = 1
    /\ total_fixes' = 0
    /\ pc' = "fa_loop"
    /\ UNCHANGED <<disk, perm, run, summary, fixed, before, wrote, failed, seen>>
    /\ UNCHANGED sedVars

\* lines 27-95: one iteration of the loop over test_files
FixAllFile ==
    /\ pc = "fa_loop"
    /\ cur <= Len(test_files)
    /\ LET f == test_files[cur]
           r == FixAllText(disk[f])
       IN /\ seen' = seen \cup {f}
          /\ IF ~CanRead(f)
             THEN \* open(file_path, 'r') raises: line 94
                  /\ failed' = failed \cup {f}
                  /\ UNCHANGED <<disk, total_fixes, fixed, wrote>>
             ELSE IF r.fixes > 0
             THEN IF CanWrite(f)
                  THEN /\ disk' = [disk EXCEPT ![f] = Join(r.lines)]
                       /\ total_fixes' = total_fixes + r.fixes
                       /\ fixed' = [fixed EXCEPT ![f] = r.fixes]
                       /\ wrote' = wrote \cup {f}
                       /\ UNCHANGED failed
                  ELSE \* open(file_path, 'w') raises: line 94
                       /\ failed' = failed \cup {f}
                       /\ fixed' = [fixed EXCEPT ![f] = r.fixes]
                       /\ UNCHANGED <<disk, total_fixes, wrote>>
             ELSE UNCHANGED <<disk, total_fixes, fixed, wrote, failed>>
    /\ cur' = cur + 1
    /\ UNCHANGED <<perm, pc, run, test_files, summary, before>>
    /\ UNCHANGED sedVars

\* lines 97-98
FixAllSummary ==
    /\ pc = "fa_loop"
    /\ cur > Len(test_files)
    /\ summary' = <<total_fixes>>
    /\ pc' = "done"
    /\ UNCHANGED <<disk, perm, run, test_files, cur, total_fixes, fixed, before,
                   wrote, failed, seen>>
    /\ UNCHANGED sedVars

FixAllRerun == Rerun("fa_walk")

FixAllNext == FixAllWalk \/ FixAllFile \/ FixAllSummary \/ FixAllRerun

SpecFixAll == FixAllInit /\ [][FixAllNext]_vars

-----------------------------------------------------------------------------
(* Claims about fix_all_pagedresponse.py *)

\* a line `var apiResponse = new ApiResponse<...`
IsWrapperLine(l) == MatchAt(LStrip(l), 1, WrapHead \o ApiOpen)

\* a line holding JsonSerializer.Serialize(expectedResponse, _jsonOptions)
IsSerLine(l) == Contains(l, SerCall)

\* a line holding `var expectedResponse = new `
IsDeclLine(l) == Contains(Strip(l), DeclPat)

\* the closest declaration line above line i (0 if none)
NearestDecl(L, i) ==
    LET D == {j \in 1..(i - 1) : IsDeclLine(L[j])}
    IN IF D = {} THEN 0 ELSE Max(D)

\* the serialization lines of L whose nearest declaration yields a type
Resolvable(L) ==
    {i \in 1..Len(L) :
        /\ IsSerLine(L[i])
        /\ NearestDecl(L, i) # 0
        /\ ExtractType(Strip(L[NearestDecl(L, i)])) # None}

\* the type text T of a line `var expectedResponse = new T {` (None: no brace)
DeclaredType(l) ==
    LET s == LStrip(l)
        b == FindTok(s, 1, "{")
    IN IF ~MatchAt(s, 1, DeclPat) \/ b = 0 THEN None
       ELSE Strip(SubSeq(s, Len(DeclPat) + 1, b - 1))

\* the iteration over file f is the one that ended last
JustDone(f) == cur > 1 /\ cur - 1 <= Len(test_files) /\ test_files[cur - 1] = f

\* C1 (as claimed): a second run of fix_all_paged_response_tests on the output
\* of the first writes no file, reports zero fixes and leaves every text as it is.
C1_SecondRunChangesNothing ==
    run >= 2 => (wrote = {} /\ total_fixes = 0 /\ disk = before)

\* C3 (as claimed): in a file written by fix_all_paged_response_tests, the
\* serialization call that follows an inserted wrapper line takes apiResponse,
\* not expectedResponse.
C3_SerializesWrapper ==
    run = 1 =>
        \A f \in wrote :
            LET L == Split(disk[f])
            IN \A i \in 1..Len(L) :
                 IsWrapperLine(L[i]) =>
                     /\ i < Len(L)
                     /\ Contains(L[i + 1], SerApiCall)
                     /\ ~Contains(L[i + 1], SerCall)

\* C7 (as claimed): every wrapper line inserted by fix_all_paged_response_tests
\* is `var apiResponse = new ApiResponse<T> { Data = expectedResponse };` with T
\* the type text of the resolved `var expectedResponse = new T {` declaration.
C7_WrapperHasDeclaredType ==
    run = 1 =>
        \A f \in wrote :
            LET L == Split(disk[f])
            IN \A i \in 1..Len(L) :
                 IsWrapperLine(L[i]) =>
                     LET j == NearestDecl(L, i)
                     IN /\ j # 0
                        /\ DeclaredType(L[j]) # None
                        /\ LStrip(L[i]) = WrapHead \o ApiOpen \o DeclaredType(L[j])
                                            \o <<">">> \o WrapTail

RECURSIVE IsInsertion(_, _)
\* out is in with wrapper lines added, each one immediately before a
\* serialization line of in and at most one per serialization line
IsInsertion(in, out) ==
    IF in = <<>> THEN out = <<>>
    ELSE IF out = <<>> THEN FALSE
    ELSE \/ /\ Head(out) = Head(in)
            /\ IsInsertion(Tail(in), Tail(out))
         \/ /\ IsWrapperLine(Head(out))
            /\ IsSerLine(Head(in))
            /\ Len(out) >= 2
            /\ out[2] = Head(in)
            /\ IsInsertion(Tail(in), Tail(Tail(out)))

-----------------------------------------------------------------------------
(* quick_fix_remaining.py and fix_single_objects.py: grep -n, then sed per line *)

\* number of spaces after the \n of the sed replacement text
ReplIndent == 15

\* one token against one token of a basic regular expression: `.` is any character
BreTok(t, p) == IF p = "." THEN Len(t) = 1 ELSE t = p

BreMatchAt(s, i, pat) ==
    /\ i >= 1
    /\ i + Len(pat) - 1 <= Len(s)
    /\ \A k \in 1..Len(pat) : BreTok(s[i + k - 1], pat[k])

\* start of the leftmost match of pat in s (0 if none)
BreFind(s, pat) ==
    LET R == {i \in 1..Len(s) : BreMatchAt(s, i, pat)}
    IN IF R = {} THEN 0 ELSE Min(R)

\* grep -n pat file: the numbers of the matching lines, ascending
GrepN(text, pat) ==
    LET lines == Split(text)
    IN ListOf({n \in 1..Len(lines) : BreFind(lines[n], pat) # 0})

\* sed -n '1,np' file
SedPrint(text, n) ==
    LET lines == Split(text)
    IN Join(SubSeq(lines, 1, IF n < Len(lines) THEN n ELSE Len(lines))) \o <<NL>>

\* sed -i 'ns/pat/repl/' file: the first match on line n is replaced
SedSubst(text, n, pat, repl) ==
    LET lines == Split(text)
    IN IF n > Len(lines) \/ BreFind(lines[n], pat) = 0 THEN text
       ELSE LET l == lines[n]
                i == BreFind(l, pat)
            IN Join([lines EXCEPT ![n] =
                       SubSeq(l, 1, i - 1) \o repl \o SubSeq(l, i + Len(pat), Len(l))])

\* 'var jsonResponse = JsonSerializer.Serialize(expectedResponse, _jsonOptions);'
SerStmt == VarJson \o SerCall \o <<";">>

\* 'new PagedResponse<'
NewPaged == <<"new", SP, "PagedResponse", "<">>

\* the replacement text for a wrapper type: the wrapper statement, a newline,
\* fifteen spaces and the re-pointed serialization statement
Replacement(wrapper_type) ==
    WrapHead \o wrapper_type \o WrapTail \o <<NL>> \o Spaces(ReplIndent)
        \o VarJson \o SerApiCall \o <<";">>

\* re.search(r'var expectedResponse = new (\w+)', content): group(1) or None
FirstDeclWord(content) ==
    LET R == {p \in 1..Len(content) :
                /\ MatchAt(content, p, DeclPat)
                /\ p + Len(DeclPat) <= Len(content)
                /\ IsWord(content[p + Len(DeclPat)])}
    IN IF R = {} THEN None ELSE <<content[Min(R) + Len(DeclPat)]>>

\* quick_fix_remaining.py lines 39-64: the file after the step for line number n
QuickEdit(text, n) ==
    LET content == SedPrint(text, n)
    IN IF Contains(content, NewPaged)
       THEN SedSubst(text, n, SerStmt,
                     Replacement(<<"ApiResponse", "<", "PagedResponse", "<", ">", ">">>))
       ELSE IF Contains(content, DeclPat) /\ FirstDeclWord(content) # None
       THEN SedSubst(text, n, SerStmt,
                     Replacement(ApiOpen \o FirstDeclWord(content) \o <<">">>))
       ELSE text

\* quick_fix_remaining.py lines 47, 54-56: whether the step runs sed -i
QuickRunsSed(text, n) ==
    LET content == SedPrint(text, n)
    IN \/ Contains(content, NewPaged)
       \/ Contains(content, DeclPat) /\ FirstDeclWord(content) # None

\* fix_single_objects.py lines 23-31: object_types[files_to_check[f]]
ObjectTypeOf(f) ==
    IF f = 1 THEN <<"LawMatics", ".", "SDK", ".", "Models", ".", "TaskStatus">>
    ELSE IF f = 2 THEN <<"EventType">>
    ELSE IF f = 3 THEN <<"MatterSubStatus">>
    ELSE IF f = 4 THEN <<"Subtask">>
    ELSE <<"Expense">>

\* fix_single_objects.py lines 59-61: whether the step for line number n runs sed -i
SingleRunsSed(text, n) ==
    LET content == SedPrint(text, n)
    IN ~Contains(content, NewPaged) /\ Contains(content, DeclPat)

\* fix_single_objects.py lines 58-73: the file after the step for line number n
SingleEdit(text, n, f) ==
    IF SingleRunsSed(text, n)
    THEN SedSubst(text, n, SerStmt, Replacement(ApiOpen \o ObjectTypeOf(f) \o <<">">>))
    ELSE text

\* a declaration of a second single-object type
LDeclGadget ==
    <<SP>> \o DeclPat \o <<"Gadget", SP, "{", SP, "}", ";">>

SedLibrary == {LDeclPaged, LDeclSingle, LDeclGadget, LSer, LOther}

\* a text whose only site has a single-object declaration
SingleText == Join(<<LDeclSingle, LSer>>)

SedInit ==
    /\ InitCommon(TextsOver(SedLibrary, MaxLines), {OtherText, PlainText, SingleText})
    /\ script \in {"quick", "single"}
    /\ line_nums = <<>>
    /\ site = 1
    /\ edits = 0
    /\ pc = "sed_file"

\* quick_fix_remaining.py lines 22-32, 65-68 / fix_single_objects.py lines 34-44,
\* 74-77: the next listed file (file id cur): exists(), then grep -n
SedGrep ==
    /\ pc = "sed_file"
    /\ cur <= NumFiles
    /\ LET f == cur
           nums == GrepN(disk[f], SerCall)
       IN IF perm[f] = "absent"
          THEN /\ cur' = cur + 1
               /\ UNCHANGED <<pc, seen, line_nums, site>>
          ELSE /\ seen' = seen \cup {f}
               /\ IF CanRead(f) /\ nums # <<>>
                  THEN /\ line_nums' = nums
                       /\ site' = 1
                       /\ pc' = "sed_site"
                       /\ UNCHANGED cur
                  ELSE /\ cur' = cur + 1
                       /\ UNCHANGED <<pc, line_nums, site>>
    /\ UNCHANGED <<disk, perm, run, test_files, total_fixes, summary, fixed, before,
                   wrote, failed, script, edits>>

\* quick_fix_remaining.py lines 34-64: the step for the next line number grep printed
SedSiteQuick ==
    /\ pc = "sed_site"
    /\ script = "quick"
    /\ site <= Len(line_nums)
    /\ LET f == cur
           n == line_nums[site]
           new == QuickEdit(disk[f], n)
       IN /\ disk' = [disk EXCEPT ![f] = new]
          /\ wrote' = IF QuickRunsSed(disk[f], n) THEN wrote \cup {f} ELSE wrote
          /\ edits' = IF new # disk[f] THEN edits + 1 ELSE edits
    /\ site' = site + 1
    /\ UNCHANGED <<perm, pc, run, test_files, cur, total_fixes, summary, fixed, before,
                   failed, seen, script, line_nums>>

\* fix_single_objects.py lines 46-73: the step for the next line number grep printed
SedSiteSingle ==
    /\ pc = "sed_site"
    /\ script = "single"
    /\ site <= Len(line_nums)
    /\ LET f == cur
           n == line_nums[site]
           new == SingleEdit(disk[f], n, f)
       IN /\ disk' = [disk EXCEPT ![f] = new]
          /\ wrote' = IF SingleRunsSed(disk[f], n) THEN wrote \cup {f} ELSE wrote
          /\ total_fixes' = IF SingleRunsSed(disk[f], n) THEN total_fixes + 1
                            ELSE total_fixes
          /\ fixed' = IF SingleRunsSed(disk[f], n) THEN [fixed EXCEPT ![f] = @ + 1]
                      ELSE fixed
          /\ edits' = IF new # disk[f] THEN edits + 1 ELSE edits
    /\ site' = site + 1
    /\ UNCHANGED <<perm, pc, run, test_files, cur, summary, before, failed, seen,
                   script, line_nums>>

\* the line numbers of the file are used up: on to the next listed file
SedNextFile ==
    /\ pc = "sed_site"
    /\ site > Len(line_nums)
    /\ cur' = cur + 1
    /\ pc' = "sed_file"
    /\ line_nums' = <<>>
    /\ site' = 1
    /\ UNCHANGED <<disk, perm, run, test_files, total_fixes, summary, fixed, before,
                   wrote, failed, seen, script, edits>>

\* the list is used up; fix_single_objects.py lines 79-80 print the total
SedDone ==
    /\ pc = "sed_file"
    /\ cur > NumFiles
    /\ pc' = "done"
    /\ summary' = IF script = "single" THEN <<total_fixes>> ELSE <<>>
    /\ UNCHANGED <<disk, perm, run, test_files, cur, total_fixes, fixed, before,
                   wrote, failed, seen, script, line_nums, site, edits>>

SedRerun == Rerun("sed_file")

SedNext ==
    SedGrep \/ SedSiteQuick \/ SedSiteSingle \/ SedNextFile \/ SedDone \/ SedRerun

SpecSed == SedInit /\ [][SedNext]_vars

-----------------------------------------------------------------------------
(* Claims about quick_fix_remaining.py and fix_single_objects.py *)

\* the lines of L that grep -n reports
SerSites(L) == {i \in 1..Len(L) : BreFind(L[i], SerCall) # 0}

\* the running script resolves a declaration for line i of the text
SiteResolvable(text, i) ==
    IF script = "quick" THEN QuickRunsSed(text, i) ELSE SingleRunsSed(text, i)

\* C2 (as claimed): a listed file with two or more serialization lines, each with
\* a resolvable declaration above it, has every one of them rewritten by a single
\* run (none still serializes expectedResponse) and no other line changed.
C2_EverySiteRewritten ==
    (pc = "done" /\ run = 1) =>
        \A f \in seen :
            LET I == Split(before[f])
                O == Split(disk[f])
                S == SerSites(I)
            IN (/\ CanRead(f)
                /\ Cardinality(S) >= 2
                /\ \A i \in S : SiteResolvable(before[f], i))
               => /\ ~Contains(disk[f], SerCall)
                  /\ Len(O) = Len(I) + Cardinality(S)
                  /\ \A i \in (1..Len(I)) \ S :
                        O[i + Cardinality({k \in S : k < i})] = I[i]

RECURSIVE CloseOf(_, _, _)
\* index of the `>` that closes a `<` opened before index i, d levels deep (0 if none)
CloseOf(s, i, d) ==
    IF i > Len(s) THEN 0
    ELSE IF s[i] = "<" THEN CloseOf(s, i + 1, d + 1)
    ELSE IF s[i] = ">" THEN (IF d = 0 THEN i ELSE CloseOf(s, i + 1, d - 1))
    ELSE IF s[i] = NL THEN 0
    ELSE CloseOf(s, i + 1, d)

\* the Inner texts of the declarations `new PagedResponse<Inner>` of a text
DeclaredInners(text) ==
    {SubSeq(text, p + Len(NewPaged), CloseOf(text, p + Len(NewPaged), 0) - 1) :
        p \in {q \in 1..Len(text) :
                 /\ MatchAt(text, q, NewPaged)
                 /\ CloseOf(text, q + Len(NewPaged), 0) # 0}}

\* 'new ApiResponse<PagedResponse<'
NewApiPaged == <<"new", SP, "ApiResponse", "<", "PagedResponse", "<">>

\* C8 (as claimed): a wrapper written for a value declared `new PagedResponse<Inner>`
\* is declared `ApiResponse<PagedResponse<Inner>>` with the Inner of that declaration.
C8_WrapperNamesInner ==
    \A f \in wrote :
        \A p \in 1..Len(disk[f]) :
            MatchAt(disk[f], p, NewApiPaged) =>
                \E inner \in DeclaredInners(before[f]) :
                    MatchAt(disk[f], p + Len(NewApiPaged), inner \o <<">", ">">>)

-----------------------------------------------------------------------------
(* final_fix_script.py *)

\* how many test methods a modelled file of final_fix_script.py holds at most
MaxMethods == 2

\* the words of the modelled files that match \w+Async_WithValidId_Returns\w+
ValidIdNames == {"GetWidgetAsync_WithValidId_ReturnsWidget"}

\* '[Fact]'
Fact == <<"[", "Fact", "]">>

\* 'public async Task '
TestHead == <<"public", SP, "async", SP, "Task", SP>>

\* 'public class'
PublicClass == <<"public", SP, "class">>

\* line 12, group 1 of test_pattern matched at p:
\* \[Fact\]\s+public async Task (\w+Async_WithValidId_Returns\w+)\(\)\s*\{
\* the index after the brace, 0 if there is no match at p
TestHeadAt(s, p) ==
    LET a == p + Len(Fact)
        b == SkipSpace(s, a)
        n == b + Len(TestHead)
        c == SkipSpace(s, n + 3)
    IN IF /\ MatchAt(s, p, Fact)
          /\ b > a
          /\ MatchAt(s, b, TestHead)
          /\ n + 2 <= Len(s)
          /\ s[n] \in ValidIdNames
          /\ s[n + 1] = "("
          /\ s[n + 2] = ")"
          /\ c <= Len(s)
          /\ s[c] = "{"
       THEN c + 1
       ELSE 0

\* line 12, the end of test_pattern at i: (\[Fact\]|public class|\Z)
TestTermAt(s, i) ==
    i > Len(s) \/ MatchAt(s, i, Fact) \/ MatchAt(s, i, PublicClass)

\* line 12, (.*?)(\})\s*(...) from h: the index of the first `}` at or after h
\* that white space and the end of the pattern follow, 0 if there is none
TestCloseFrom(s, h) ==
    LET R == {q \in h..Len(s) : s[q] = "}" /\ TestTermAt(s, SkipSpace(s, q + 1))}
    IN IF R = {} THEN 0 ELSE Min(R)

\* test_pattern matched at p: <<p, start of the body, index of the closing brace>>
TestMatchAt(s, p) ==
    LET h == TestHeadAt(s, p)
        q == IF h = 0 THEN 0 ELSE TestCloseFrom(s, h)
    IN IF h = 0 \/ q = 0 THEN None ELSE <<p, h, q>>

\* line 48: the first match re.sub hands to the callback, None if there is none
TestSearch(content) ==
    LET R == {p \in 1..Len(content) : TestMatchAt(content, p) # None}
    IN IF R = {} THEN None ELSE TestMatchAt(content, Min(R))

\* lines 9-54, apply_api_response_wrapper on the text it read.  The callback's
\* first statement (line 15) unpacks the five groups of a match into four names,
\* which raises ValueError; `modified` of line 42 is a name of the callback, so
\* the function's own `modified` keeps the False of line 9; with no match re.sub
\* returns the content.
ApplyWrapper(content) ==
    [raised |-> TestSearch(content) # None,
     modified |-> FALSE,
     new_content |-> content]

-----------------------------------------------------------------------------
(* final_fix_script.py: the files *)

LFact == <<SP>> \o Fact

LSigValid ==
    <<SP>> \o TestHead \o <<"GetWidgetAsync_WithValidId_ReturnsWidget", "(", ")">>

LSigList == <<SP>> \o TestHead \o <<"GetWidgetsAsync_ReturnsWidgets", "(", ")">>

LOpen == <<SP, "{">>

\* '  var apiResponse = new ApiResponse<Widget> { Data = expectedResponse };'
LWrapSingle == WrapperLine(LSer, <<"Widget">>)

\* '  var jsonResponse = JsonSerializer.Serialize(apiResponse, _jsonOptions);'
LSerApi == <<SP, SP>> \o VarJson \o SerApiCall \o <<";">>

\* a test method: attribute, signature, braces around the body lines
MethodOf(sig, body) == Join(<<LFact, sig, LOpen>> \o body \o <<LOther>>)

MValidSingle == MethodOf(LSigValid, <<LDeclSingle, LSer>>)
MValidWrapped == MethodOf(LSigValid, <<LDeclSingle, LWrapSingle, LSerApi>>)
MValidPaged == MethodOf(LSigValid, <<LDeclPaged, LSer>>)
MList == MethodOf(LSigList, <<LDeclPaged, LSer>>)

FinalLibrary == {MValidSingle, MValidWrapped, MValidPaged, MList, LOther}

-----------------------------------------------------------------------------
(* final_fix_script.py: the script, lines 70-77 *)

FinalInit ==
    /\ InitCommon(TextsOver(FinalLibrary, MaxMethods), {MList, MValidSingle})
    /\ SedIdle
    /\ pc = "ff_loop"

\* lines 71-75, one iteration of the loop over the listed files (file id cur).
\* Nothing catches an exception of open() or of the callback: the script ends
\* with a traceback.
FinalFile ==
    /\ pc = "ff_loop"
    /\ cur <= NumFiles
    /\ LET f == cur
           r == ApplyWrapper(disk[f])
           writes == r.modified /\ r.new_content # disk[f]
       IN IF perm[f] = "absent"
          THEN /\ cur' = cur + 1
               /\ UNCHANGED <<disk, pc, total_fixes, fixed, wrote, failed, seen>>
          ELSE /\ seen' = seen \cup {f}
               /\ IF ~CanRead(f) \/ r.raised \/ (writes /\ ~CanWrite(f))
                  THEN /\ pc' = "crashed"
                       /\ failed' = failed \cup {f}
                       /\ UNCHANGED <<disk, cur, total_fixes, fixed, wrote>>
                  ELSE /\ disk' = IF writes THEN [disk EXCEPT ![f] = r.new_content]
                                  ELSE disk
                       /\ wrote' = IF writes THEN wrote \cup {f} ELSE wrote
                       /\ total_fixes' = IF r.modified THEN total_fixes + 1
                                         ELSE total_fixes
                       /\ fixed' = [fixed EXCEPT ![f] = IF r.modified THEN 1 ELSE 0]
                       /\ cur' = cur + 1
                       /\ UNCHANGED <<pc, failed>>
    /\ UNCHANGED <<perm, run, test_files, summary, before>>
    /\ UNCHANGED sedVars

\* line 77
FinalSummary ==
    /\ pc = "ff_loop"
    /\ cur > NumFiles
    /\ summary' = <<total_fixes>>
    /\ pc' = "done"
    /\ UNCHANGED <<disk, perm, run, test_files, cur, total_fixes, fixed, before,
                   wrote, failed, seen>>
    /\ UNCHANGED sedVars

FinalRerun == Rerun("ff_loop")

FinalNext == FinalFile \/ FinalSummary \/ FinalRerun

SpecFinal == FinalInit /\ [][FinalNext]_vars

-----------------------------------------------------------------------------
(* final_fix_script.py: claims *)

\* the test methods of a text the rewrite is for: named *Async_WithValidId_Returns*,
\* with a body that has no ApiResponse< or PagedResponse< and declares
\* `var expectedResponse = new `
RewritableMethods(text) ==
    {p \in 1..Len(text) :
        LET m == TestMatchAt(text, p)
            body == SubSeq(text, m[2], m[3] - 1)
        IN /\ m # None
           /\ ~Contains(body, ApiOpen)
           /\ ~Contains(body, PagedOpen)
           /\ Contains(body, DeclPat)}

\* C4 (as claimed): for every listed file the script has taken up and could read,
\* apply_api_response_wrapper returned, and it wrote the file and returned True
\* exactly when the file has a method to rewrite; once the script has ended, the
\* printed total is the number of listed files with a method to rewrite.
C4_WritesAndCountsRewrittenFiles ==
    /\ \A f \in seen :
          CanRead(f) =>
              /\ f \notin failed
              /\ f \in wrote <=> RewritableMethods(before[f]) # {}
              /\ fixed[f] = 1 <=> RewritableMethods(before[f]) # {}
    /\ pc = "done" =>
          summary = <<Cardinality({f \in seen :
                          CanRead(f) /\ RewritableMethods(before[f]) # {}})>>

\* C5 (as claimed): when the processing of a file has failed and the script has
\* stopped, every listed file that exists was taken up and the summary line was
\* printed.
C5_FailureConfinedToFile ==
    (failed # {} /\ pc \in {"done", "crashed"}) =>
        /\ summary # <<>>
        /\ \A f \in Files : perm[f] # "absent" => f \in seen

-----------------------------------------------------------------------------
(* fix_pagedresponse_tests.py *)

\* line 49: how many characters after a match the callback looks at
LookAhead == 500

RECURSIVE CharLen(_, _, _)
\* the number of characters of the tokens a..b of s
CharLen(s, a, b) ==
    IF a > b THEN 0
    ELSE IF a = b THEN Len(s[a])
    ELSE LET m == (a + b) \div 2 IN CharLen(s, a, m) + CharLen(s, m + 1, b)

\* line 49, content[e : e + 500] for the token index e the match ends at: the
\* tokens that lie within the window
Window(content, e) ==
    SubSeq(content, e + 1,
           Max({e} \cup {k \in (e + 1)..Len(content) :
                            CharLen(content, e + 1, k) <= LookAhead}))

\* line 40, paged_response_pattern matched at p:
\* \s+var\s+(\w+)\s*=\s*new\s+PagedResponse<[^>]+>\s*\{[^}]*\}\s*;
\* <<p, index of the closing `;`, the variable's name>>, None without a match
PagedMatchAt(s, p) ==
    LET a == SkipSpace(s, p)
        b == SkipSpace(s, a + 1)
        c == SkipSpace(s, b + 1)
        d == SkipSpace(s, c + 1)
        e == SkipSpace(s, d + 1)
        g == FindTok(s, e + 2, ">")
        h == SkipSpace(s, g + 1)
        k == FindTok(s, h + 1, "}")
        m == SkipSpace(s, k + 1)
    IN IF /\ p <= Len(s) /\ a > p
          /\ a <= Len(s) /\ s[a] = "var"
          /\ b > a + 1 /\ b <= Len(s) /\ IsWord(s[b])
          /\ c <= Len(s) /\ s[c] = "="
          /\ d <= Len(s) /\ s[d] = "new"
          /\ e > d + 1 /\ MatchAt(s, e, PagedOpen)
          /\ g > e + 2
          /\ h <= Len(s) /\ s[h] = "{"
          /\ k # 0
          /\ m <= Len(s) /\ s[m] = ";"
       THEN <<p, m, s[b]>>
       ELSE None

\* the next match re.sub finds at or after pos, None if there is none
PagedSearch(s, pos) ==
    LET R == {p \in pos..Len(s) : PagedMatchAt(s, p) # None}
    IN IF R = {} THEN None ELSE PagedMatchAt(s, Min(R))

\* ' = new ApiResponse<PagedResponse<>> { Data = ' after 'var apiResponse'
EmptyWrapper ==
    WrapHead \o <<"ApiResponse", "<", "PagedResponse", "<", ">", ">", SP, "{", SP,
                  "Data", SP, "=", SP>>

\* lines 42-57, replace_paged_response for the match m of content; `indent` is
\* group 1, which is the whole match
ReplacePagedResponse(content, m) ==
    LET indent == SubSeq(content, m[1], m[2])
        var_name == m[3]
        lines_after_match == Window(content, m[2])
    IN IF /\ Contains(lines_after_match, ApiOpen)
          /\ \E i \in 1..Len(lines_after_match) : lines_after_match[i] = var_name
       THEN indent
       ELSE indent \o EmptyWrapper \o <<var_name, SP, "}", ";", NL>>
            \o indent \o VarJson \o SerApiCall \o <<";">>

RECURSIVE PagedSub(_, _)
\* line 60, re.sub(paged_response_pattern, replace_paged_response, content) from pos
PagedSub(content, pos) ==
    LET m == PagedSearch(content, pos)
    IN IF m = None THEN SubSeq(content, pos, Len(content))
       ELSE SubSeq(content, pos, m[1] - 1) \o ReplacePagedResponse(content, m)
            \o PagedSub(content, m[2] + 1)

\* 'JsonSerializer.Serialize('
SerOpen == <<"JsonSerializer", ".", "Serialize", "(">>

\* line 64, serialization_pattern matched at p:
\* \s+var\s+jsonResponse\s*=\s*JsonSerializer\.Serialize\([^,]+,\s*_jsonOptions\)\s*;
\* the index of the closing `;`, 0 without a match
SerMatchAt(s, p) ==
    LET a == SkipSpace(s, p)
        b == SkipSpace(s, a + 1)
        c == SkipSpace(s, b + 1)
        d == SkipSpace(s, c + 1)
        g == FindTok(s, d + Len(SerOpen), ",")
        h == SkipSpace(s, g + 1)
        k == SkipSpace(s, h + 2)
    IN IF /\ p <= Len(s) /\ a > p
          /\ a <= Len(s) /\ s[a] = "var"
          /\ b > a + 1 /\ b <= Len(s) /\ s[b] = "jsonResponse"
          /\ c <= Len(s) /\ s[c] = "="
          /\ MatchAt(s, d, SerOpen)
          /\ g > d + Len(SerOpen)
          /\ MatchAt(s, h, <<"_jsonOptions", ")">>)
          /\ k <= Len(s) /\ s[k] = ";"
       THEN k
       ELSE 0

RECURSIVE SerRemove(_, _)
\* line 65, re.sub(serialization_pattern, '', content) from pos
SerRemove(content, pos) ==
    LET R == {p \in pos..Len(content) : SerMatchAt(content, p) # 0}
    IN IF R = {} THEN SubSeq(content, pos, Len(content))
       ELSE SubSeq(content, pos, Min(R) - 1)
            \o SerRemove(content, SerMatchAt(content, Min(R)) + 1)

\* lines 32-65: the text the script holds when it decides whether to write
FixPagedText(content) == SerRemove(PagedSub(content, 1), 1)

-----------------------------------------------------------------------------
(* fix_pagedresponse_tests.py: the script *)

\* '  var apiResponse = new ApiResponse<Widget> { Data = expectedWidget };', the
\* wrapper of another test's variable
LWrapOther ==
    <<SP, SP>> \o WrapHead \o ApiOpen
        \o <<"Widget", ">", SP, "{", SP, "Data", SP, "=", SP, "expectedWidget", SP, "}", ";">>

PagedLibrary ==
    {LDeclPaged, LDeclSingle, LDeclOpen, LSer, LSerApi, LWrapSingle, LWrapOther, LOther}

PagedInit ==
    /\ InitCommon(TextsOver(PagedLibrary, MaxLines), {OtherText, PlainText, SingleText})
    /\ SedIdle
    /\ pc = "fp_walk"

\* lines 10-23: the files the walk finds and can read that contain PagedResponse<
PagedWalk ==
    /\ pc = "fp_walk"
    /\ test_files' = ListOf({f \in Files : CanRead(f) /\ Contains(disk[f], PagedOpen)})
    /\ cur' = 1
    /\ pc' = "fp_loop"
    /\ UNCHANGED <<disk, perm, run, total_fixes, summary, fixed, before, wrote,
                   failed, seen>>
    /\ UNCHANGED sedVars

\* lines 25-76, one iteration of the loop: read, both substitutions, write back
\* when the text changed; an exception is caught and printed
PagedFile ==
    /\ pc = "fp_loop"
    /\ cur <= Len(test_files)
    /\ LET f == test_files[cur]
           new == FixPagedText(disk[f])
       IN /\ seen' = seen \cup {f}
          /\ IF ~CanRead(f) \/ (new # disk[f] /\ ~CanWrite(f))
             THEN /\ failed' = failed \cup {f}
                  /\ UNCHANGED <<disk, wrote>>
             ELSE /\ disk' = [disk EXCEPT ![f] = new]
                  /\ wrote' = IF new # disk[f] THEN wrote \cup {f} ELSE wrote
                  /\ UNCHANGED failed
    /\ cur' = cur + 1
    /\ UNCHANGED <<perm, pc, run, test_files, total_fixes, summary, fixed, before>>
    /\ UNCHANGED sedVars

\* the list is used up: the function returns (it prints no total)
PagedDone ==
    /\ pc = "fp_loop"
    /\ cur > Len(test_files)
    /\ pc' = "done"
    /\ UNCHANGED <<disk, perm, run, test_files, cur, total_fixes, summary, fixed,
                   before, wrote, failed, seen>>
    /\ UNCHANGED sedVars

PagedRerun == Rerun("fp_walk")

PagedNext == PagedWalk \/ PagedFile \/ PagedDone \/ PagedRerun

SpecPaged == PagedInit /\ [][PagedNext]_vars

-----------------------------------------------------------------------------
(* fix_pagedresponse_tests.py: claims *)

\* the names of the variables whose PagedResponse declaration the pattern matches
MatchedNames(text) ==
    {PagedMatchAt(text, p)[3] : p \in {q \in 1..Len(text) : PagedMatchAt(text, q) # None}}

\* 'var jsonResponse = JsonSerializer.Serialize(v, _jsonOptions);'
SerStmtOf(v) == VarJson \o SerOpen \o <<v, ",", SP, "_jsonOptions", ")", ";">>

\* how many times a text holds pat
Count(text, pat) == Cardinality({p \in 1..Len(text) : MatchAt(text, p, pat)})

\* C6 (as claimed): a file the script has just processed is unchanged when the
\* pattern matched no PagedResponse declaration in it, and every statement
\* `var jsonResponse = JsonSerializer.Serialize(v, _jsonOptions);` of a variable v
\* that has no matched declaration is still in the file.
C6_OnlyMatchedDeclarationsChange ==
    \A f \in Files :
        (JustDone(f) /\ f \in seen) =>
            /\ MatchedNames(before[f]) = {} => disk[f] = before[f]
            /\ \A v \in {"expectedResponse", "apiResponse"} \ MatchedNames(before[f]) :
                  Count(disk[f], SerStmtOf(v)) >= Count(before[f], SerStmtOf(v))

-----------------------------------------------------------------------------
(* quick_fix_remaining.py and fix_single_objects.py: further claims *)

\* the nearest line above line i of L that holds `var expectedResponse = new `
\* (0 if none)
NearestDeclAbove(L, i) ==
    LET R == {j \in 1..(i - 1) : Contains(L[j], DeclPat)}
    IN IF R = {} THEN 0 ELSE Max(R)

\* the word after `var expectedResponse = new ` on a line that holds it
DeclWord(l) == l[BreFind(l, DeclPat) + Len(DeclPat)]

\* the wrapper statement for a type text
WrapperStmt(t) == WrapHead \o ApiOpen \o t \o <<">">> \o WrapTail

\* C11 (as claimed): in a listed file with one serialization line whose nearest
\* declaration above is a single object `new T`, a run leaves at that line the
\* wrapper statement `var apiResponse = new ApiResponse<T> { Data = expectedResponse };`
\* with that T (for fix_single_objects.py, T as its table spells the type of the
\* file), whatever the lines farther up declare.
C11_NearestDeclarationDecides ==
    (pc = "done" /\ run = 1) =>
        \A f \in seen :
            LET I == Split(before[f])
                O == Split(disk[f])
                S == SerSites(I)
            IN \A i \in S :
                  LET j == NearestDeclAbove(I, i)
                  IN (/\ CanRead(f)
                      /\ S = {i}
                      /\ j # 0
                      /\ ~Contains(I[j], NewPaged)
                      /\ BreFind(I[j], DeclPat) + Len(DeclPat) <= Len(I[j])
                      /\ IsWord(DeclWord(I[j])))
                     => /\ i <= Len(O)
                        /\ \/ Contains(O[i], WrapperStmt(<<DeclWord(I[j])>>))
                           \/ /\ script = "single"
                              /\ Contains(O[i], WrapperStmt(ObjectTypeOf(f)))

\* C13 (as claimed): the total fix_single_objects.py prints is the number of
\* serialization lines its run rewrote.
C13_TotalCountsRewrittenLines ==
    (pc = "done" /\ script = "single") => summary = <<edits>>

-----------------------------------------------------------------------------
(* fix_pagedresponse_tests.py: further claims *)

\* 'new ApiResponse<'
NewApi == <<"new", SP, "ApiResponse", "<">>

\* w holds a statement `new ApiResponse<...> { Data = X ...`
HasWrapperOf(w, X) ==
    \E p \in 1..Len(w) :
        /\ MatchAt(w, p, NewApi)
        /\ \E q \in p..Len(w) :
              /\ MatchAt(w, q, <<"Data", SP, "=", SP, X>>)
              /\ \A k \in p..q : w[k] # ";"

\* the declarations the pattern matches in a text: <<index of the closing `;`,
\* name of the variable>>
MatchedDecls(text) ==
    {<<PagedMatchAt(text, p)[2], PagedMatchAt(text, p)[3]>> :
        p \in {q \in 1..Len(text) : PagedMatchAt(text, q) # None}}

\* C14 (as claimed): in a file the script has just processed and could write,
\* every matched declaration of a variable X whose look-ahead window holds no
\* wrapper `new ApiResponse<...> { Data = X` got its wrapper statement: the file
\* gained at least one `var apiResponse = new ApiResponse<PagedResponse<>> { Data = `
\* for each of them.
C14_SkipsOnlyWrappedDeclarations ==
    \A f \in Files :
        (JustDone(f) /\ f \in seen /\ CanWrite(f)) =>
            Count(disk[f], EmptyWrapper) >=
                Count(before[f], EmptyWrapper)
                + Cardinality({d \in MatchedDecls(before[f]) :
                                  ~HasWrapperOf(Window(before[f], d[1]), d[2])})

\* the token p of a text is the first of its line that is not a space
LineStartsAt(text, p) ==
    LET R == {k \in 1..(p - 1) : text[k] # SP}
    IN R = {} \/ text[Max(R)] = NL

\* the matched declarations of a text, without their leading white space
MatchedDeclTexts(text) ==
    {SubSeq(text, SkipSpace(text, p), PagedMatchAt(text, p)[2]) :
        p \in {q \in 1..Len(text) : PagedMatchAt(text, q) # None}}

\* C15 (as claimed): in a file the script has just written, every matched
\* declaration occurs as often as before (the substituted text holds it once), and
\* every inserted `var apiResponse` statement and every serialization of
\* apiResponse starts its line, after white space only.
C15_ReplacementKeepsOneDeclaration ==
    \A f \in Files :
        (JustDone(f) /\ f \in wrote /\ run = 1) =>
            /\ \A d \in MatchedDeclTexts(before[f]) :
                  Count(disk[f], d) = Count(before[f], d)
            /\ \A p \in 1..Len(disk[f]) :
                  (\/ MatchAt(disk[f], p, EmptyWrapper)
                   \/ MatchAt(disk[f], p, VarJson \o SerApiCall))
                  => LineStartsAt(disk[f], p)

-----------------------------------------------------------------------------
(* fix_all_pagedresponse.py: further claims *)

-----------------------------------------------------------------------------
(* fix_response_patterns.py: fix_single_object_tests *)

\* line 42: the spaces after the \n of the inserted text
PatIndent == 12

RECURSIVE ReplaceFrom(_, _, _, _)
\* str.replace(pat, rep) on the tokens from pos on
ReplaceFrom(s, pos, pat, rep) ==
    LET R == {i \in pos..Len(s) : MatchAt(s, i, pat)}
    IN IF R = {} THEN SubSeq(s, pos, Len(s))
       ELSE SubSeq(s, pos, Min(R) - 1) \o rep
            \o ReplaceFrom(s, Min(R) + Len(pat), pat, rep)

\* s.replace(pat, rep)
ReplaceAll(s, pat, rep) == ReplaceFrom(s, 1, pat, rep)

\* '// Arrange'
Arrange == <<"/", "/", SP, "Arrange">>

\* line 20, single_object_pattern matched at p: the index of the `;` that ends
\* the serialization statement, 0 without a match.
\* \[Fact\]\s+public async Task \w+Async_WithValidId_Returns\w+\(\)\s*{\s*// Arrange
\* [^}]*?var expectedResponse = new \w+\{[^}]*?\};\s*var jsonResponse = ...;
SingleObjectEnd(s, p) ==
    LET h == TestHeadAt(s, p)
        a == SkipSpace(s, h)
        b == a + Len(Arrange)
        \* where the declaration can start: no `}` before it
        D == {d \in b..Len(s) :
                /\ MatchAt(s, d, DeclPat)
                /\ d + Len(DeclPat) + 1 <= Len(s)
                /\ IsWord(s[d + Len(DeclPat)])
                /\ s[d + Len(DeclPat) + 1] = "{"
                /\ \A k \in b..(d - 1) : s[k] # "}"}
        k == FindTok(s, b, "}")
        e == SkipSpace(s, k + 2)
    IN IF /\ h # 0
          /\ MatchAt(s, a, Arrange)
          /\ D # {}
          /\ k # 0
          /\ k + 1 <= Len(s) /\ s[k + 1] = ";"
          /\ MatchAt(s, e, SerStmt)
       THEN e + Len(SerStmt) - 1
       ELSE 0

\* the match that starts at p, None when p is 0
SingleObjectSpan(s, p) == IF p = 0 THEN None ELSE <<p, SingleObjectEnd(s, p)>>

\* the least element of a set of positions, 0 for the empty set
First(S) == IF S = {} THEN 0 ELSE Min(S)

\* line 23: the next match of finditer at or after pos: <<start, end>> or None
SingleObjectSearch(s, pos) ==
    SingleObjectSpan(s, First({p \in pos..Len(s) : SingleObjectEnd(s, p) # 0}))

\* line 31: re.search(r'var expectedResponse = new (\w+)\s*\{', test_code),
\* group(1) or None
ModelType(test_code) ==
    LET R == {d \in 1..Len(test_code) :
                /\ MatchAt(test_code, d, DeclPat)
                /\ d + Len(DeclPat) <= Len(test_code)
                /\ IsWord(test_code[d + Len(DeclPat)])
                /\ SkipSpace(test_code, d + Len(DeclPat) + 1) <= Len(test_code)
                /\ test_code[SkipSpace(test_code, d + Len(DeclPat) + 1)] = "{"}
    IN IF R = {} THEN None ELSE <<test_code[Min(R) + Len(DeclPat)]>>

\* the inserted text: the wrapper of expected<Type>, a newline, n spaces and the
\* serialization of apiResponse
RenamedWrapper(t, n) ==
    WrapHead \o ApiOpen
        \o <<t, ">", SP, "{", SP, "Data", SP, "=", SP, "expected" \o t, SP, "}", ";", NL>>
        \o Spaces(n) \o VarJson \o SerApiCall \o <<";">>

\* lines 37-43 (fix_single_object_tests.py lines 30-36): both replaces
RenameAndWrap(code, t, n) ==
    ReplaceAll(ReplaceAll(code, DeclPat \o <<t>>,
                          <<"var", SP, "expected" \o t, SP, "=", SP, "new", SP, t>>),
               SerStmt, RenamedWrapper(t, n))

\* lines 26-47, the body of the loop for a match with text test_code and model
\* type t (None without one): the content and whether the match was rewritten
FixSingleMatch(content, test_code, t) ==
    IF /\ ~Contains(test_code, ApiOpen)
       /\ ~Contains(test_code, NewPaged)
       /\ t # None
    THEN [content |-> ReplaceAll(content, test_code,
                                 RenameAndWrap(test_code, t[1], PatIndent)),
          modified |-> TRUE]
    ELSE [content |-> content, modified |-> FALSE]

RECURSIVE FixSingleFrom(_, _, _)

\* `modified` once set stays set
FixSingleJoin(here, rest) ==
    [content |-> rest.content, modified |-> here.modified \/ rest.modified]

\* one match m of the loop, then the matches after it
FixSingleAt(orig, m, here) ==
    FixSingleJoin(here, FixSingleFrom(orig, m[2] + 1, here.content))

\* the match m (None at the end of the matches) on the content so far
FixSingleNext(orig, m, content) ==
    IF m = None THEN [content |-> content, modified |-> FALSE]
    ELSE FixSingleAt(orig, m,
                     FixSingleMatch(content, SubSeq(orig, m[1], m[2]),
                                    ModelType(SubSeq(orig, m[1], m[2]))))

\* lines 25-47: the loop over the matches of the text read, from pos on, with the
\* content so far; the content and `modified` after the loop
FixSingleFrom(orig, pos, content) ==
    FixSingleNext(orig, SingleObjectSearch(orig, pos), content)

\* lines 13-53 on the text read
FixSingleObjects(content) == FixSingleFrom(content, 1, content)

-----------------------------------------------------------------------------
(* fix_response_patterns.py: fix_paged_response_tests *)

\* lines 82, 84: the spaces before an added property and before the closing brace
PagIndent == 24

CR == "\r"

RECURSIVE UniversalNewlines(_)
\* open(path, 'r').read(): \r\n and \r are read as \n
UniversalNewlines(bytes) ==
    LET R == {i \in 1..Len(bytes) : bytes[i] = CR}
    IN IF R = {} THEN bytes
       ELSE SubSeq(bytes, 1, Min(R) - 1) \o <<NL>>
            \o UniversalNewlines(
                 SubSeq(bytes,
                        IF Min(R) < Len(bytes) /\ bytes[Min(R) + 1] = NL
                        THEN Min(R) + 2 ELSE Min(R) + 1,
                        Len(bytes)))

\* 'new PaginationInfo'
NewPagination == <<"new", SP, "PaginationInfo">>

\* the words of the modelled files that have TotalPages, HasNext as a substring
TotalPagesWords == {"TotalPages"}
HasNextWords == {"HasNext", "HasNextPage"}

HasWord(s, W) == \E i \in 1..Len(s) : s[i] \in W

\* line 63, paged_pattern matched at p: new PaginationInfo\s*\{([^}]+)\}
\* <<p, index of the opening brace, index of the closing brace>>, None without a match
PaginationMatchAt(s, p) ==
    LET b == SkipSpace(s, p + Len(NewPagination))
        k == FindTok(s, b + 1, "}")
    IN IF /\ MatchAt(s, p, NewPagination)
          /\ b <= Len(s) /\ s[b] = "{"
          /\ k > b + 1
       THEN <<p, b, k>>
       ELSE None

RECURSIVE RStripCommas(_)
\* str.rstrip(',')
RStripCommas(s) ==
    IF s # <<>> /\ s[Len(s)] = "," THEN RStripCommas(SubSeq(s, 1, Len(s) - 1)) ELSE s

\* lines 65-86, replace_pagination for the group of a match
ReplacePagination(whole, group) ==
    LET noPages == ~HasWord(group, TotalPagesWords)
        noNext == ~HasWord(group, HasNextWords)
        stripped == Strip(group)
        pagination_content ==
            IF stripped # <<>> /\ stripped[Len(stripped)] = ","
            THEN RStripCommas(group) ELSE group
        sep == <<",", NL>> \o Spaces(PagIndent)
        pages == <<"TotalPages", SP, "=", SP, "1">>
        next == <<"HasNext", SP, "=", SP, "false">>
        missing_props ==
            IF noPages /\ noNext THEN pages \o sep \o next
            ELSE IF noPages THEN pages ELSE next
    IN IF noPages \/ noNext
       THEN NewPagination \o <<CR, NL, "{", SP>> \o pagination_content \o sep
            \o missing_props \o <<CR, NL>> \o Spaces(PagIndent) \o <<"}">>
       ELSE whole

RECURSIVE PaginationSub(_, _)
\* line 88, re.sub(paged_pattern, replace_pagination, content) from pos
PaginationSub(content, pos) ==
    LET R == {p \in pos..Len(content) : PaginationMatchAt(content, p) # None}
    IN IF R = {} THEN SubSeq(content, pos, Len(content))
       ELSE LET m == PaginationMatchAt(content, Min(R))
            IN SubSeq(content, pos, m[1] - 1)
               \o ReplacePagination(SubSeq(content, m[1], m[3]),
                                    SubSeq(content, m[2] + 1, m[3] - 1))
               \o PaginationSub(content, m[3] + 1)

-----------------------------------------------------------------------------
(* fix_response_patterns.py: the files and the script *)

\* '  // Arrange'
LArrange == <<SP, SP>> \o Arrange

\* '  var expectedResponse = new Widget{ Id = 1 };'
LDeclTight ==
    <<SP, SP>> \o DeclPat \o <<"Widget", "{", SP, "Id", SP, "=", SP, "1", SP, "}", ";">>

\* '  Assert.Equal(expectedResponse.Id, result.Id);'
LAssertExpected ==
    <<SP, SP, "Assert", ".", "Equal", "(", "expectedResponse", ".", "Id", ",", SP,
      "result", ".", "Id", ")", ";">>

\* a single-object test method, and one that also asserts on the expected object
MArrange == Join(<<LFact, LSigValid, LOpen, LArrange, LDeclTight, LSer, LOther>>)
MArrangeAssert ==
    Join(<<LFact, LSigValid, LOpen, LArrange, LDeclTight, LSer, LAssertExpected, LOther>>)

\* ' new PaginationInfo { Page = 1, }'
LPagBare ==
    <<SP>> \o NewPagination \o <<SP, "{", SP, "Page", SP, "=", SP, "1", ",", SP, "}">>

\* ' new PaginationInfo { TotalPages = 1, HasNext = false }'
LPagFull ==
    <<SP>> \o NewPagination
        \o <<SP, "{", SP, "TotalPages", SP, "=", SP, "1", ",", SP,
             "HasNext", SP, "=", SP, "false", SP, "}">>

\* ' new PaginationInfo { HasNextPage = true }'
LPagNextPage ==
    <<SP>> \o NewPagination \o <<SP, "{", SP, "HasNextPage", SP, "=", SP, "true", SP, "}">>

PatternsLibrary == {MArrange, MArrangeAssert, LPagBare, LPagFull, LPagNextPage, LOther}

\* a text both functions rewrite
BothText == Join(<<MArrangeAssert, LPagBare>>)

PatternsInit ==
    /\ InitCommon(TextsOver(PatternsLibrary, MaxLines), {BothText, PlainText})
    /\ SedIdle
    /\ pc = "pt_walk"

\* lines 5-9: every *ClientTests.cs of the directory (none of the modelled files
\* is AddressesClientTests.cs)
PatternsWalk ==
    /\ pc = "pt_walk"
    /\ test_files' = ListOf({f \in Files : perm[f] # "absent"})
    /\ cur' = 1
    /\ pc' = "pt_loop"
    /\ UNCHANGED <<disk, perm, run, total_fixes, summary, fixed, before, wrote,
                   failed, seen>>
    /\ UNCHANGED sedVars

\* lines 100-107, one iteration of the loop: fix_single_object_tests, then
\* fix_paged_response_tests on the file as the first left it, each adding one to
\* total_fixes when it returns True. No exception is caught: a failing open ends
\* the script.
PatternsFile ==
    /\ pc = "pt_loop"
    /\ cur <= Len(test_files)
    /\ \E f \in {test_files[cur]} :
       \E single \in {FixSingleObjects(UniversalNewlines(disk[f]))} :
       \E disk1 \in {IF single.modified THEN single.content ELSE disk[f]} :
       \E read2 \in {UniversalNewlines(disk1)} :
       \E paged \in {PaginationSub(read2, 1)} :
       \E n1 \in {IF single.modified THEN 1 ELSE 0} :
       \E n2 \in {IF paged # read2 THEN 1 ELSE 0} :
          /\ seen' = seen \cup {f}
          /\ IF ~CanRead(f) \/ (single.modified /\ ~CanWrite(f))
             THEN /\ pc' = "crashed"
                  /\ failed' = failed \cup {f}
                  /\ UNCHANGED <<disk, wrote, total_fixes, fixed, cur>>
             ELSE IF paged # read2 /\ ~CanWrite(f)
             THEN /\ pc' = "crashed"
                  /\ failed' = failed \cup {f}
                  /\ UNCHANGED <<disk, wrote, fixed, cur>>
                  /\ total_fixes' = total_fixes + n1
             ELSE /\ disk' = [disk EXCEPT ![f] = IF paged # read2 THEN paged ELSE disk1]
                  /\ wrote' = IF n1 + n2 > 0 THEN wrote \cup {f} ELSE wrote
                  /\ total_fixes' = total_fixes + n1 + n2
                  /\ fixed' = [fixed EXCEPT ![f] = n1 + n2]
                  /\ cur' = cur + 1
                  /\ UNCHANGED <<pc, failed>>
    /\ UNCHANGED <<perm, run, test_files, summary, before>>
    /\ UNCHANGED sedVars

\* line 109: print 'Total files fixed'
PatternsSummary ==
    /\ pc = "pt_loop"
    /\ cur > Len(test_files)
    /\ summary' = <<total_fixes>>
    /\ pc' = "done"
    /\ UNCHANGED <<disk, perm, run, test_files, cur, total_fixes, fixed, before,
                   wrote, failed, seen>>
    /\ UNCHANGED sedVars

PatternsRerun == Rerun("pt_walk")

PatternsNext == PatternsWalk \/ PatternsFile \/ PatternsSummary \/ PatternsRerun

SpecPatterns == PatternsInit /\ [][PatternsNext]_vars

-----------------------------------------------------------------------------
(* fix_response_patterns.py: claims *)

\* where the test method that holds position p starts (0 before the first one)
MethodStart(s, p) == Max({q \in 1..p : MatchAt(s, q, Fact)} \cup {0})

\* the method that holds position p declares expectedResponse above p or at p
DeclaresExpected(s, p) ==
    \E d \in Max({MethodStart(s, p), 1})..p : MatchAt(s, d, DeclPat)

\* the method that holds position p was rewritten: it holds the wrapper of a
\* renamed declaration
MethodRewritten(s, p) ==
    \E q \in 1..Len(s) :
        /\ MatchAt(s, q, <<"Data", SP, "=", SP, "expectedWidget">>)
        /\ MethodStart(s, q) = MethodStart(s, p)

\* C17 (as claimed): in a file fix_single_object_tests has just rewritten, no
\* statement of a rewritten method names expectedResponse unless the method
\* still declares it.
C17_RewrittenMethodIsConsistent ==
    \A f \in Files :
        (pc = "pt_loop" /\ JustDone(f) /\ f \in wrote)
        => \A p \in 1..Len(disk[f]) :
             (disk[f][p] = "expectedResponse" /\ MethodRewritten(disk[f], p))
             => DeclaresExpected(disk[f], p)

\* C19 (as claimed): the printed total is at most the number of files processed
\* and is the number of files whose content changed.
C19_TotalCountsEachFileOnce ==
    pc = "done"
    => /\ summary[1] <= Len(test_files)
       /\ summary[1] = Cardinality({f \in Files : disk[f] # before[f]})

-----------------------------------------------------------------------------
(* fix_tests.py *)

\* line 24, json_options_field
JsonOptionsField ==
    <<SP, SP, SP, SP, SP, SP, SP, SP, "private", SP, "readonly", SP,
      "JsonSerializerOptions", SP, "_jsonOptions", ";", NL>>

\* lines 25-32, json_options_init
JsonOptionsInit ==
    <<SP, SP, SP, SP, SP, SP, SP, SP, SP, SP, SP, SP, NL, SP, SP, SP, SP, SP, SP, SP,
      SP, SP, SP, SP, SP, "/", "/", SP, "Initialize", SP, "JSON", SP, "options", SP,
      "to", SP, "match", SP, "BaseClient", NL, SP, SP, SP, SP, SP, SP, SP, SP, SP, SP,
      SP, SP, "_jsonOptions", SP, "=", SP, "new", SP, "JsonSerializerOptions", NL, SP,
      SP, SP, SP, SP, SP, SP, SP, SP, SP, SP, SP, "{", NL, SP, SP, SP, SP, SP, SP, SP,
      SP, SP, SP, SP, SP, SP, SP, SP, SP, "PropertyNamingPolicy", SP, "=", SP,
      "JsonNamingPolicy", ".", "SnakeCaseLower", ",", NL, SP, SP, SP, SP, SP, SP, SP,
      SP, SP, SP, SP, SP, SP, SP, SP, SP, "DefaultIgnoreCondition", SP, "=", SP,
      "System", ".", "Text", ".", "Json", ".", "Serialization", ".",
      "JsonIgnoreCondition", ".", "WhenWritingNull", ",", NL, SP, SP, SP, SP, SP, SP,
      SP, SP, SP, SP, SP, SP, SP, SP, SP, SP, "Converters", SP, "=", SP, "{", SP,
      "new", SP, "System", ".", "Text", ".", "Json", ".", "Serialization", ".",
      "JsonStringEnumConverter", "(", ")", SP, "}", NL, SP, SP, SP, SP, SP, SP, SP, SP,
      SP, SP, SP, SP, "}", ";">>

\* the words of the modelled files that have _jsonOptions as a substring
JsonOptionsWords == {"_jsonOptions"}

\* 'private readonly HttpClient _httpClient;'
HttpClientField ==
    <<"private", SP, "readonly", SP, "HttpClient", SP, "_httpClient", ";">>

\* 'BaseAddress = new Uri(_options.BaseUrl)'
BaseAddress ==
    <<"BaseAddress", SP, "=", SP, "new", SP, "Uri", "(", "_options", ".", "BaseUrl", ")">>

\* line 52, http_client_pattern: the field at q after white space; the index of
\* its last token, 0 without a match
HttpClientEnd(s, q) ==
    IF q > 1 /\ IsSpace(s[q - 1]) /\ MatchAt(s, q, HttpClientField)
    THEN q + Len(HttpClientField) - 1 ELSE 0

\* the `;` that ends the text \s*\}\s*; from c on, 0 without one
ClosingFrom(s, c) ==
    IF c <= Len(s) /\ s[c] = "}" /\ SkipSpace(s, c + 1) <= Len(s)
       /\ s[SkipSpace(s, c + 1)] = ";"
    THEN SkipSpace(s, c + 1) ELSE 0

\* line 60, constructor_pattern: the assignment at q after white space, then
\* \s*\}\s*; -- the index of the `;`, 0 without a match
ConstructorEnd(s, q) ==
    IF q > 1 /\ IsSpace(s[q - 1]) /\ MatchAt(s, q, BaseAddress)
    THEN ClosingFrom(s, SkipSpace(s, q + Len(BaseAddress))) ELSE 0

RECURSIVE InsertAfter(_, _, _, _)
\* re.sub(pattern, r'\1' + ins, s) for a pattern whose matches end at the
\* positions E: ins goes in after each of them, from pos on
InsertAfter(s, pos, E, ins) ==
    IF {k \in E : k >= pos} = {} THEN SubSeq(s, pos, Len(s))
    ELSE SubSeq(s, pos, Min({k \in E : k >= pos})) \o ins
         \o InsertAfter(s, Min({k \in E : k >= pos}) + 1, E, ins)

\* line 53: where the matches of http_client_pattern end
HttpClientEnds(s) == {HttpClientEnd(s, q) : q \in 1..Len(s)} \ {0}

\* line 61: where the matches of constructor_pattern end
ConstructorEnds(s) == {ConstructorEnd(s, q) : q \in 1..Len(s)} \ {0}

\* 'JsonSerializer.Serialize('
SerializeOpen == <<"JsonSerializer", ".", "Serialize", "(">>

\* line 68, JsonSerializer\.Serialize\(([^,)]+)\) at p: the index of the closing
\* parenthesis, 0 without a match
OneArgEnd(s, p) ==
    IF MatchAt(s, p, SerializeOpen)
       /\ First({k \in (p + Len(SerializeOpen))..Len(s) : s[k] \in {",", ")"}})
            > p + Len(SerializeOpen)
       /\ s[First({k \in (p + Len(SerializeOpen))..Len(s) : s[k] \in {",", ")"}})] = ")"
    THEN First({k \in (p + Len(SerializeOpen))..Len(s) : s[k] \in {",", ")"}})
    ELSE 0

RECURSIVE AddOptionsFrom(_, _)

\* the call that starts at p (0: none is left) gets the second argument
AddOptionsAt(s, pos, p) ==
    IF p = 0 THEN SubSeq(s, pos, Len(s))
    ELSE SubSeq(s, pos, OneArgEnd(s, p) - 1) \o <<",", SP, "_jsonOptions", ")">>
         \o AddOptionsFrom(s, OneArgEnd(s, p) + 1)

\* line 68: re.sub(..., r'JsonSerializer.Serialize(\1, _jsonOptions)', s) from pos
AddOptionsFrom(s, pos) ==
    AddOptionsAt(s, pos, First({p \in pos..Len(s) : OneArgEnd(s, p) # 0}))

\* lines 57-68 once the field pattern was found: the field, then (None when the
\* constructor pattern is not found) the initialization and the calls
WithInit(c1) ==
    IF ConstructorEnds(c1) = {} THEN None
    ELSE <<AddOptionsFrom(InsertAfter(c1, 1, ConstructorEnds(c1), JsonOptionsInit), 1)>>

\* FixTestsText without the test of line 47
FixTestsText_NoSkip(content) ==
    IF HttpClientEnds(content) = {} THEN None
    ELSE WithInit(InsertAfter(content, 1, HttpClientEnds(content),
                              <<NL>> \o JsonOptionsField))

\* lines 46-78 on the text read: <<the text to write>>, None when nothing is written
FixTestsText(content) ==
    IF HasWord(content, JsonOptionsWords) \/ HttpClientEnds(content) = {} THEN None
    ELSE WithInit(InsertAfter(content, 1, HttpClientEnds(content),
                              <<NL>> \o JsonOptionsField))

\* '  private readonly HttpClient _httpClient;'
LHttpField == <<SP, SP>> \o HttpClientField

\* '  BaseAddress = new Uri(_options.BaseUrl) };'
LBaseAddress == <<SP, SP>> \o BaseAddress \o <<SP, "}", ";">>

\* '  var jsonResponse = JsonSerializer.Serialize(expectedResponse);'
LSerOne == <<SP, SP>> \o VarJson \o SerializeOpen \o <<"expectedResponse", ")", ";">>

TestsLibrary == {LHttpField, LBaseAddress, LSerOne, LSer, LOther}

\* a text with everything the script looks for, and one without the constructor
ClassText == Join(<<LHttpField, LBaseAddress, LSerOne>>)
FieldText == Join(<<LHttpField, LSerOne>>)

TestsInit ==
    /\ InitCommon(TextsOver(TestsLibrary, MaxLines), {ClassText, FieldText})
    /\ SedIdle
    /\ pc = "ft_loop"

\* lines 34-78, one iteration of the loop over the listed files (file id cur).
\* No exception of open() is caught: the script ends with a traceback.
TestsFile ==
    /\ pc = "ft_loop"
    /\ cur <= NumFiles
    /\ LET f == cur
           r == FixTestsText(disk[f])
       IN IF perm[f] = "absent"
          THEN /\ cur' = cur + 1
               /\ UNCHANGED <<disk, pc, fixed, wrote, failed, seen>>
          ELSE /\ seen' = seen \cup {f}
               /\ IF ~CanRead(f) \/ (r # None /\ ~CanWrite(f))
                  THEN /\ pc' = "crashed"
                       /\ failed' = failed \cup {f}
                       /\ UNCHANGED <<disk, cur, fixed, wrote>>
                  ELSE /\ disk' = IF r # None THEN [disk EXCEPT ![f] = r[1]] ELSE disk
                       /\ wrote' = IF r # None THEN wrote \cup {f} ELSE wrote
                       /\ fixed' = [fixed EXCEPT ![f] = IF r # None THEN 1 ELSE 0]
                       /\ cur' = cur + 1
                       /\ UNCHANGED <<pc, failed>>
    /\ UNCHANGED <<perm, run, test_files, total_fixes, summary, before>>
    /\ UNCHANGED sedVars

\* line 80: print 'Done!'
TestsDone ==
    /\ pc = "ft_loop"
    /\ cur > NumFiles
    /\ pc' = "done"
    /\ UNCHANGED <<disk, perm, run, test_files, cur, total_fixes, summary, fixed,
                   before, wrote, failed, seen>>
    /\ UNCHANGED sedVars

TestsRerun == Rerun("ft_loop")

TestsNext == TestsFile \/ TestsDone \/ TestsRerun

SpecTests == TestsInit /\ [][TestsNext]_vars

\* C18: fix_tests.py writes a file only when the text it read had no
\* _jsonOptions and matched both the _httpClient field pattern and the
\* constructor pattern; a written file holds the field and the initialization and
\* has no one-argument Serialize call left; every other file is as it was; a
\* second run writes nothing and leaves every file as it was.
C18_WritesOnlyCompleteFix ==
    /\ \A f \in Files :
          IF f \in wrote
          THEN /\ ~HasWord(before[f], JsonOptionsWords)
               /\ HttpClientEnds(before[f]) # {}
               /\ ConstructorEnds(before[f]) # {}
               /\ disk[f] # before[f]
               /\ Contains(disk[f], JsonOptionsField)
               /\ Contains(disk[f], JsonOptionsInit)
               /\ \A p \in 1..Len(disk[f]) : OneArgEnd(disk[f], p) = 0
          ELSE disk[f] = before[f]
    /\ run >= 2 => (wrote = {} /\ disk = before)

\* C18 witness: a second run has ended on a directory where the first run
\* rewrote one file and left alone a file without the initialization
C18_Witness ==
    /\ run = 2
    /\ pc = "done"
    /\ \E f, g \in Files :
          /\ Contains(disk[f], JsonOptionsInit)
          /\ g \in seen
          /\ ~Contains(disk[g], JsonOptionsInit)
          /\ HttpClientEnds(disk[g]) # {}

-----------------------------------------------------------------------------
(* fix_single_object_tests.py *)

\* line 12: `public async Task NAME()` at q with NAME one of the
\* ...Async_WithValidId_Returns... names
SignatureAt(s, q) ==
    /\ MatchAt(s, q, TestHead)
    /\ q + Len(TestHead) + 2 <= Len(s)
    /\ s[q + Len(TestHead)] \in ValidIdNames
    /\ s[q + Len(TestHead) + 1] = "("
    /\ s[q + Len(TestHead) + 2] = ")"

RECURSIVE NamesFrom(_, _)
\* line 12, test_methods: the names re.findall returns, from pos on
NamesFrom(s, pos) ==
    IF First({q \in pos..Len(s) : SignatureAt(s, q)}) = 0 THEN <<>>
    ELSE <<s[First({q \in pos..Len(s) : SignatureAt(s, q)}) + Len(TestHead)]>>
         \o NamesFrom(s, First({q \in pos..Len(s) : SignatureAt(s, q)}) + Len(TestHead) + 3)

\* the `}` of the first text \}\s*\] at or after position o, 0 without one
BracketCloseFrom(s, o) ==
    First({k \in o..Len(s) :
             /\ s[k] = "}"
             /\ SkipSpace(s, k + 1) <= Len(s)
             /\ s[SkipSpace(s, k + 1)] = "]"})

\* the opening brace of group 1 for a signature at b, 0 without one
MethodOpenAt(s, b, name) ==
    IF SignatureAt(s, b) /\ s[b + Len(TestHead)] = name
    THEN FindTok(s, b + Len(TestHead) + 3, "{") ELSE 0

\* line 16, method_pattern at p for a method name:
\* (\[Fact\]\s+public async Task NAME\(\)[^{]*?\{)(.*?)(\}\s*\])
\* the index of the opening brace, 0 when the pattern does not match at p
MethodMatchAt(s, p, name) ==
    IF /\ MatchAt(s, p, Fact)
       /\ SkipSpace(s, p + Len(Fact)) > p + Len(Fact)
       /\ MethodOpenAt(s, SkipSpace(s, p + Len(Fact)), name) # 0
       /\ BracketCloseFrom(s, MethodOpenAt(s, SkipSpace(s, p + Len(Fact)), name) + 1) # 0
    THEN MethodOpenAt(s, SkipSpace(s, p + Len(Fact)), name)
    ELSE 0

\* line 25: re.search(r'var expectedResponse = new (\w+)', method_body), group(1)
\* or None
BodyModelType(body) ==
    IF First({d \in 1..Len(body) :
                /\ MatchAt(body, d, DeclPat)
                /\ d + Len(DeclPat) <= Len(body)
                /\ IsWord(body[d + Len(DeclPat)])}) = 0
    THEN None
    ELSE <<body[First({d \in 1..Len(body) :
                         /\ MatchAt(body, d, DeclPat)
                         /\ d + Len(DeclPat) <= Len(body)
                         /\ IsWord(body[d + Len(DeclPat)])}) + Len(DeclPat)]>>

\* lines 20-41 for a match with groups before, method_body, after and the model
\* type t of the body: the content and whether the method was rewritten
FixGetBody(content, bf, method_body, af, t) ==
    IF /\ ~Contains(method_body, <<"new", SP>> \o ApiOpen)
       /\ ~Contains(method_body, PagedOpen)
       /\ t # None
    THEN [content |-> ReplaceAll(content, bf \o method_body \o af,
                                 bf \o RenameAndWrap(method_body, t[1], PatIndent) \o af),
          modified |-> TRUE]
    ELSE [content |-> content, modified |-> FALSE]

\* the groups of the match that starts at p, with its opening brace at o, its
\* closing brace at c and its `]` at e
FixGetGroups(content, p, o, c, e) ==
    FixGetBody(content, SubSeq(content, p, o), SubSeq(content, o + 1, c - 1),
               SubSeq(content, c, e), BodyModelType(SubSeq(content, o + 1, c - 1)))

\* the match that starts at p, with its opening brace at o
FixGetAt(content, p, o) ==
    FixGetGroups(content, p, o, BracketCloseFrom(content, o + 1),
                 SkipSpace(content, BracketCloseFrom(content, o + 1) + 1))

\* line 19: the match re.search found starts at p (0: it found none)
FixGetStart(content, name, p) ==
    IF p = 0 THEN [content |-> content, modified |-> FALSE]
    ELSE FixGetAt(content, p, MethodMatchAt(content, p, name))

\* lines 16-42, one iteration of the loop: re.search for the method of that name
FixGetMethod(content, name) ==
    FixGetStart(content, name,
                First({p \in 1..Len(content) : MethodMatchAt(content, p, name) # 0}))

RECURSIVE FixGetFrom(_, _, _)

\* the result of one iteration, then the names after it
FixGetThen(names, i, here) ==
    FixSingleJoin(here, FixGetFrom(names, i + 1, here.content))

\* lines 14-42: the loop over test_methods from the i-th name on
FixGetFrom(names, i, content) ==
    IF i > Len(names) THEN [content |-> content, modified |-> FALSE]
    ELSE FixGetThen(names, i, FixGetMethod(content, names[i]))

\* lines 6-48 on the text read
FixSingleObjectGetTests(content) == FixGetFrom(NamesFrom(content, 1), 1, content)

\* '  var x = items[new Key { } ];'
LIndexed ==
    <<SP, SP, "var", SP, "x", SP, "=", SP, "items", "[", "new", SP, "Key", SP, "{", SP,
      "}", SP, "]", ";">>

\* test methods whose text runs up to a `} ]`
MGetIndexed == MethodOf(LSigValid, <<LDeclSingle, LSer, LAssertExpected, LIndexed>>)
MGetWrapped == MethodOf(LSigValid, <<LDeclSingle, LWrapSingle, LSerApi, LIndexed>>)

GetLibrary == {MValidSingle, MGetIndexed, MGetWrapped, MList, LOther}

GetInit ==
    /\ InitCommon(TextsOver(GetLibrary, MaxMethods), {MGetIndexed, MValidSingle})
    /\ SedIdle
    /\ pc = "fg_loop"

\* lines 65-69, one iteration of the loop over the listed files (file id cur).
\* No exception of open() is caught: the script ends with a traceback.
GetFile ==
    /\ pc = "fg_loop"
    /\ cur <= NumFiles
    /\ \E f \in {cur} : \E r \in {FixSingleObjectGetTests(disk[f])} :
          IF perm[f] = "absent"
          THEN /\ cur' = cur + 1
               /\ UNCHANGED <<disk, pc, total_fixes, fixed, wrote, failed, seen>>
          ELSE /\ seen' = seen \cup {f}
               /\ IF ~CanRead(f) \/ (r.modified /\ ~CanWrite(f))
                  THEN /\ pc' = "crashed"
                       /\ failed' = failed \cup {f}
                       /\ UNCHANGED <<disk, cur, total_fixes, fixed, wrote>>
                  ELSE /\ disk' = IF r.modified THEN [disk EXCEPT ![f] = r.content]
                                  ELSE disk
                       /\ wrote' = IF r.modified THEN wrote \cup {f} ELSE wrote
                       /\ total_fixes' = IF r.modified THEN total_fixes + 1
                                         ELSE total_fixes
                       /\ fixed' = [fixed EXCEPT ![f] = IF r.modified THEN 1 ELSE 0]
                       /\ cur' = cur + 1
                       /\ UNCHANGED <<pc, failed>>
    /\ UNCHANGED <<perm, run, test_files, summary, before>>
    /\ UNCHANGED sedVars

\* line 71: print 'Total files fixed'
GetSummary ==
    /\ pc = "fg_loop"
    /\ cur > NumFiles
    /\ summary' = <<total_fixes>>
    /\ pc' = "done"
    /\ UNCHANGED <<disk, perm, run, test_files, cur, total_fixes, fixed, before,
                   wrote, failed, seen>>
    /\ UNCHANGED sedVars

GetRerun == Rerun("fg_loop")

GetNext == GetFile \/ GetSummary \/ GetRerun

SpecGet == GetInit /\ [][GetNext]_vars

-----------------------------------------------------------------------------
(* fix_model_properties.py *)

\* lines 13-26, the keys of model_requirements in order
ModelNames ==
    <<"CustomContactType", "TimeEntry", "TaskStatus", "EventType", "Subtask",
      "MatterSubStatus", "Expense", "CustomEmail", "Task", "EmailAddress", "Address",
      "EventLocation">>

\* lines 13-26, the value of every key
RequiredProps == <<"CreatedAt", "UpdatedAt">>

\* line 55: the spaces before an added property
PropIndent == 24

\* line 55: ',\n' + spaces + '<prop> = DateTime.UtcNow'
AddedProp(prop) ==
    <<",", NL>> \o Spaces(PropIndent) \o <<prop, SP, "=", SP, "DateTime", ".", "UtcNow">>

\* the opening brace of `new <model>\s*\{` at p, 0 without one
ModelOpenAt(s, p, model) ==
    IF /\ MatchAt(s, p, <<"new", SP, model>>)
       /\ SkipSpace(s, p + 3) <= Len(s)
       /\ s[SkipSpace(s, p + 3)] = "{"
    THEN SkipSpace(s, p + 3) ELSE 0

\* line 34, pattern at p: new <model>\s*\{([^}]+)\} -- the index of the closing
\* brace, 0 without a match
ModelCloseAt(s, p, model) ==
    IF ModelOpenAt(s, p, model) # 0
       /\ FindTok(s, ModelOpenAt(s, p, model) + 1, "}") > ModelOpenAt(s, p, model) + 1
    THEN FindTok(s, ModelOpenAt(s, p, model) + 1, "}") ELSE 0

RECURSIVE GroupsFrom(_, _, _)

\* the group of the match at p (0: no match is left), then the groups after it
GroupsAt(s, p, model) ==
    IF p = 0 THEN <<>>
    ELSE <<SubSeq(s, ModelOpenAt(s, p, model) + 1, ModelCloseAt(s, p, model) - 1)>>
         \o GroupsFrom(s, ModelCloseAt(s, p, model) + 1, model)

\* line 35, re.findall(pattern, content) from pos on
GroupsFrom(s, pos, model) ==
    GroupsAt(s, First({p \in pos..Len(s) : ModelCloseAt(s, p, model) # 0}), model)

\* line 54, (new <model>\s*\{[^}]*?)(<match>) at p, for a match text without
\* regular-expression operators: the index of the last token of the match text,
\* 0 when the pattern does not match at p
GroupEndAt(s, p, model, g) ==
    IF ModelOpenAt(s, p, model) = 0 THEN 0
    ELSE IF First({j \in (ModelOpenAt(s, p, model) + 1)..Len(s) :
                     /\ MatchAt(s, j, g)
                     /\ \A k \in (ModelOpenAt(s, p, model) + 1)..(j - 1) : s[k] # "}"}) = 0
    THEN 0
    ELSE First({j \in (ModelOpenAt(s, p, model) + 1)..Len(s) :
                  /\ MatchAt(s, j, g)
                  /\ \A k \in (ModelOpenAt(s, p, model) + 1)..(j - 1) : s[k] # "}"})
         + Len(g) - 1

RECURSIVE AddPropFrom(_, _, _, _, _)

\* the property goes in after the match that starts at p (0: none is left)
AddPropAt(s, pos, p, model, g, prop) ==
    IF p = 0 THEN SubSeq(s, pos, Len(s))
    ELSE SubSeq(s, pos, GroupEndAt(s, p, model, g)) \o AddedProp(prop)
         \o AddPropFrom(s, GroupEndAt(s, p, model, g) + 1, model, g, prop)

\* lines 53-58, re.sub over the content from pos on
AddPropFrom(s, pos, model, g, prop) ==
    AddPropAt(s, pos, First({p \in pos..Len(s) : GroupEndAt(s, p, model, g) # 0}),
              model, g, prop)

\* lines 40-59 for one match text g: the required properties from the i-th on
RECURSIVE AddMissingProps(_, _, _, _)
AddMissingProps(content, model, g, i) ==
    IF i > Len(RequiredProps) THEN content
    ELSE AddMissingProps(IF HasWord(g, {RequiredProps[i]}) THEN content
                         ELSE AddPropFrom(content, 1, model, g, RequiredProps[i]),
                         model, g, i + 1)

\* lines 38-59: the loop over the matches from the i-th on
RECURSIVE FixGroupsFrom(_, _, _, _)
FixGroupsFrom(content, model, groups, i) ==
    IF i > Len(groups) THEN content
    ELSE FixGroupsFrom(AddMissingProps(content, model, groups[i], 1), model, groups, i + 1)

\* line 59: some match lacks a required property
SomeMissing(groups) ==
    \E i \in 1..Len(groups) : \E j \in 1..Len(RequiredProps) :
        ~HasWord(groups[i], {RequiredProps[j]})

\* FixMissingProperties with `modified` set whether or not a match lacks a property
FixMissingProperties_AlwaysModified(content, model) ==
    [content |-> FixGroupsFrom(content, model, GroupsFrom(content, 1, model), 1),
     modified |-> TRUE]

\* lines 28-66, fix_missing_properties on the text read
FixMissingProperties(content, model) ==
    [content |-> FixGroupsFrom(content, model, GroupsFrom(content, 1, model), 1),
     modified |-> SomeMissing(GroupsFrom(content, 1, model))]

\* '  var e = new Expense { Id = 1 };'
LNewExpense ==
    <<SP, SP, "var", SP, "e", SP, "=", SP, "new", SP, "Expense", SP, "{", SP, "Id", SP,
      "=", SP, "1", SP, "}", ";">>

\* '  var h = new Expense { CreatedAt = 1 };'
LNewExpenseHalf ==
    <<SP, SP, "var", SP, "h", SP, "=", SP, "new", SP, "Expense", SP, "{", SP,
      "CreatedAt", SP, "=", SP, "1", SP, "}", ";">>

\* '  var c = new Expense { CreatedAt = 1, UpdatedAt = 2 };'
LNewExpenseFull ==
    <<SP, SP, "var", SP, "c", SP, "=", SP, "new", SP, "Expense", SP, "{", SP,
      "CreatedAt", SP, "=", SP, "1", ",", SP, "UpdatedAt", SP, "=", SP, "2", SP, "}", ";">>

\* '  var t = new Task { Id = 1 };'
LNewTask ==
    <<SP, SP, "var", SP, "t", SP, "=", SP, "new", SP, "Task", SP, "{", SP, "Id", SP,
      "=", SP, "1", SP, "}", ";">>

PropsLibrary == {LNewExpense, LNewExpenseHalf, LNewExpenseFull, LNewTask, LOther}

\* a text with two models to complete
ModelsText == Join(<<LNewExpense, LNewTask>>)

PropsInit ==
    /\ InitCommon(TextsOver(PropsLibrary, MaxLines), {ModelsText, PlainText})
    /\ SedIdle
    /\ pc = "fm_walk"

\* lines 6-10: every *ClientTests.cs of the directory
PropsWalk ==
    /\ pc = "fm_walk"
    /\ test_files' = ListOf({f \in Files : perm[f] # "absent"})
    /\ cur' = 1
    /\ pc' = "fm_loop"
    /\ UNCHANGED <<disk, perm, run, total_fixes, summary, fixed, before, wrote,
                   failed, seen>>
    /\ UNCHANGED sedVars

\* lines 73-76, one iteration of the inner loop: the file test_files[cur] and
\* the model ModelNames[site]. The file is read anew (line 74; a model whose name
\* the file does not hold has no match either), fix_missing_properties writes
\* it when a match lacks a property, and total_fixes goes up by one then. No
\* exception of open() is caught: the script ends with a traceback.
PropsModel ==
    /\ pc = "fm_loop"
    /\ cur <= Len(test_files)
    /\ \E f \in {test_files[cur]} :
       \E r \in {FixMissingProperties(disk[f], ModelNames[site])} :
          /\ seen' = seen \cup {f}
          /\ IF ~CanRead(f) \/ (r.modified /\ ~CanWrite(f))
             THEN /\ pc' = "crashed"
                  /\ failed' = failed \cup {f}
                  /\ UNCHANGED <<disk, cur, site, total_fixes, fixed, wrote>>
             ELSE /\ disk' = [disk EXCEPT ![f] = r.content]
                  /\ wrote' = IF r.modified THEN wrote \cup {f} ELSE wrote
                  /\ total_fixes' = total_fixes + (IF r.modified THEN 1 ELSE 0)
                  /\ fixed' = [fixed EXCEPT ![f] = @ + (IF r.modified THEN 1 ELSE 0)]
                  /\ site' = IF site < Len(ModelNames) THEN site + 1 ELSE 1
                  /\ cur' = IF site < Len(ModelNames) THEN cur ELSE cur + 1
                  /\ UNCHANGED <<pc, failed>>
    /\ UNCHANGED <<perm, run, test_files, summary, before, script, line_nums, edits>>

\* line 78: print 'Total fixes applied'
PropsSummary ==
    /\ pc = "fm_loop"
    /\ cur > Len(test_files)
    /\ summary' = <<total_fixes>>
    /\ pc' = "done"
    /\ UNCHANGED <<disk, perm, run, test_files, cur, total_fixes, fixed, before,
                   wrote, failed, seen>>
    /\ UNCHANGED sedVars

PropsRerun == Rerun("fm_walk")

PropsNext == PropsWalk \/ PropsModel \/ PropsSummary \/ PropsRerun

SpecProps == PropsInit /\ [][PropsNext]_vars

-----------------------------------------------------------------------------
(* All rewrite scripts: one invocation of any one of them *)

\* texts that one script or another rewrites, and a line none of them matches
AllLibrary ==
    <<OtherText, SingleText, MValidSingle, MArrangeAssert, MGetIndexed, ClassText,
      LNewExpense, LPagBare, LOther>>

\* the texts made of up to n different chunks of AllLibrary, in that order
AllTexts(n) ==
    {Join([i \in 1..Cardinality(S) |-> AllLibrary[ListOf(S)[i]]]) :
        S \in {T \in SUBSET (1..Len(AllLibrary)) : T # {} /\ Cardinality(T) <= n}}

\* where each script starts, with the `script` the two sed scripts tell apart
AllStarts ==
    {<<"fa_walk", "">>, <<"sed_file", "quick">>, <<"sed_file", "single">>,
     <<"ff_loop", "">>, <<"fp_walk", "">>, <<"pt_walk", "">>, <<"ft_loop", "">>,
     <<"fg_loop", "">>, <<"fm_walk", "">>}

\* as each script's Init, with at most one path that is not an ordinary file
AllInit ==
    /\ InitCommon(AllTexts(MaxMethods), {OtherText, LOther})
    /\ Cardinality({f \in Files : perm[f] # "rw"}) <= 1
    /\ line_nums = <<>>
    /\ site = 1
    /\ edits = 0
    /\ \E st \in AllStarts : pc = st[1] /\ script = st[2]

AllNext ==
    \/ FixAllWalk \/ FixAllFile \/ FixAllSummary
    \/ SedGrep \/ SedSiteQuick \/ SedSiteSingle \/ SedNextFile \/ SedDone
    \/ FinalFile \/ FinalSummary
    \/ PagedWalk \/ PagedFile \/ PagedDone
    \/ PatternsWalk \/ PatternsFile \/ PatternsSummary
    \/ TestsFile \/ TestsDone
    \/ GetFile \/ GetSummary
    \/ PropsWalk \/ PropsModel \/ PropsSummary

SpecAll == AllInit /\ [][AllNext]_vars

\* a text holds no match of any pattern of a script
FreeOfFixAll(t) ==
    ~Contains(t, PagedOpen) /\ ~Contains(t, SerCall) /\ ~Contains(t, DeclPat)
FreeOfSed(t) ==
    GrepN(t, SerCall) = <<>> /\ ~Contains(t, DeclPat) /\ ~Contains(t, NewPaged)
FreeOfFinal(t) == TestSearch(t) = None
FreeOfPaged(t) ==
    /\ ~Contains(t, PagedOpen)
    /\ PagedSearch(t, 1) = None
    /\ \A p \in 1..Len(t) : SerMatchAt(t, p) = 0
FreeOfPatterns(t) ==
    /\ SingleObjectSearch(t, 1) = None
    /\ \A p \in 1..Len(t) : PaginationMatchAt(t, p) = None
FreeOfTests(t) ==
    /\ HttpClientEnds(t) = {}
    /\ ConstructorEnds(t) = {}
    /\ \A p \in 1..Len(t) : OneArgEnd(t, p) = 0
FreeOfGet(t) == NamesFrom(t, 1) = <<>>
FreeOfProps(t) == \A i \in 1..Len(ModelNames) : GroupsFrom(t, 1, ModelNames[i]) = <<>>

\* the text holds no match of any pattern of the script that is running (of any
\* script, once the script has ended)
PatternFree(t) ==
    /\ pc \in {"fa_walk", "fa_loop", "done", "crashed"} => FreeOfFixAll(t)
    /\ pc \in {"sed_file", "sed_site", "done", "crashed"} => FreeOfSed(t)
    /\ pc \in {"ff_loop", "done", "crashed"} => FreeOfFinal(t)
    /\ pc \in {"fp_walk", "fp_loop", "done", "crashed"} => FreeOfPaged(t)
    /\ pc \in {"pt_walk", "pt_loop", "done", "crashed"} => FreeOfPatterns(t)
    /\ pc \in {"ft_loop", "done", "crashed"} => FreeOfTests(t)
    /\ pc \in {"fg_loop", "done", "crashed"} => FreeOfGet(t)
    /\ pc \in {"fm_walk", "fm_loop", "done", "crashed"} => FreeOfProps(t)

====
